---- MODULE Spec2Model ----
(***************************************************************************)
(* A model of dbstats: a database/sql/driver wrapper that reports every    *)
(* connection, statement, transaction, query, exec and row event to the    *)
(* registered Hooks, and the CounterHook that aggregates them.             *)
(*                                                                         *)
(* The hook-based driver is unnamed/part_000, the CounterHook is           *)
(* counterhook.go, and the driver with built-in counters and Reset is      *)
(* driver.go.                                                              *)
(***************************************************************************)
EXTENDS Integers, Sequences, FiniteSets, TLC

\* ------------------------------------------------------------------ bounds
\* The number of calls the application makes in one behaviour: of any kind
\* (Spec), on connections (SpecConn), on statements (SpecStmt), on result sets
\* (SpecRows) and on transactions (SpecTx).
MaxOps == 4
MaxConnOps == 5
MaxStmtOps == 5
MaxRowsOps == 5
MaxTxOps == 6
\* Calls made on two drivers and the proxies that descend from them (SpecRoots).
MaxRootOps == 4
\* Calls made on statements and result sets, the one-line methods among them
\* (SpecForward).
MaxForwardOps == 5
\* Calls made while Close is taken statement by statement (SpecSteps), and
\* with hooks that may block (SpecBlock).
MaxStepOps == 4
MaxBlockOps == 4
MaxPairOps == 4
\* driver.go: calls made before Reset is called (SpecReset).
MaxLegacyOps == 3
\* driver.go: counters one reader loads while Reset may be running (SpecReset).
MaxReads == 2
\* AddHook calls and dispatches that may run at the same time (SpecRace).
MaxAdds == 4
MaxDispatches == 2
\* Goroutines that call CounterHook callbacks at the same time, and the
\* callbacks they make in all (SpecConc).
MaxThreads == 2
MaxCallbacks == 3

\* ------------------------------------------------------------------ values
Nil == "nil"                  \* a nil error
AnErr == "anErr"              \* any backend error other than io.EOF
EOF == "io.EOF"               \* the end-of-data sentinel of driver.Rows.Next
Errs == {Nil, AnErr}          \* what a backend call other than Next returns
QueryTexts == {"SELECT 1", "UPDATE t"}
RowCounts == {0, 1, 2}        \* rows a backend cursor holds
EmptyQuery == ""
NilConn == [nil |-> TRUE]     \* the nil driver.Conn
Names == {"", "my params"}    \* connection strings given to Open
NumInputs == {-1, 1}          \* what a backend statement's NumInput may answer
ColumnLists == {<<>>, <<"c0", "c1">>}     \* what a backend cursor's Columns may answer
Converters == {"driver.DefaultParameterConverter", "driver.Bool"}
NoErr == "-"                  \* driver.go: the built-in callbacks take no error
Threads == 1 .. MaxThreads

VARIABLES
    hooks,      \* statsDriver.hooks: the registered Hooks, in AddHook order
    h,          \* the fields of the one CounterHook
    conns,      \* the connection proxies Open has returned, in order
    stmts,      \* the statement proxies Prepare has returned
    txs,        \* the transaction proxies Begin has returned
    rows,       \* the result-set proxies Query has returned
    calls,      \* calls made on the driver and its proxies, by operation and result
    backend,    \* calls the proxies made on the backend, by method
    events,     \* events dispatched to the hooks, by kind, query text and error
    fuel,       \* calls the application may still make
    trail,      \* indices into hooks, in the order the last event reached them
    bare,       \* what the same calls return from a driver without hooks
    handed,     \* failed Opens, by whether they returned the open function's conn
    threads,    \* per goroutine, the atomic adds its running callback still owes
    other,      \* a second statsDriver: its hooks, its CounterHook, its calls, its events
    passed,     \* values handed through a proxy, by kind and whether they came out unchanged
    frame,      \* one proxy call taken statement by statement: what it did so far
    slice,      \* s.hooks in memory: backing arrays, header words, one append and
                \* one range loop in progress
    d,          \* driver.go: the built-in counters of statsDriver
    resetPc,    \* driver.go: stores of Reset already done (0 = not running)
    resets,     \* driver.go: Reset calls started
    pre,        \* driver.go: the counters as they were when Reset started
    snap        \* driver.go: what a concurrent reader has loaded so far

vars == <<hooks, h, conns, stmts, txs, rows, calls, backend, events, fuel,
          trail, bare, handed, threads, other, passed, frame, slice,
          d, resetPc, resets, pre, snap>>

proxyVars == <<conns, stmts, txs, rows>>
legacyVars == <<d, resetPc, resets, pre, snap>>
sideVars == <<other, passed, frame, slice>>

\* ------------------------------------------------------------- CounterHook
\* The counters of CounterHook (counterhook.go) and the error counters its
\* documentation adds.
CounterFields ==
    {"openConns", "totalConns", "openStmts", "totalStmts", "openTxs",
     "totalTxs", "committedTxs", "rolledbackTxs", "queries", "execs",
     "rowsIterated"}
ErrFields ==
    {"connErrs", "stmtErrs", "txOpenErrs", "txCloseErrs", "queryErrs",
     "execErrs", "rowErrs"}

\* driver.go statsDriver{open: open}: every built-in counter zero.
LegacyCounters == [f \in CounterFields |-> 0]

\* &CounterHook{}: every field zero.
CounterHook == [f \in CounterFields \cup ErrFields |-> 0]

OpenConns(c) == c.openConns
TotalConns(c) == c.totalConns
OpenStmts(c) == c.openStmts
TotalStmts(c) == c.totalStmts
OpenTxs(c) == c.openTxs
TotalTxs(c) == c.totalTxs
CommittedTxs(c) == c.committedTxs
RolledbackTxs(c) == c.rolledbackTxs
Queries(c) == c.queries
Execs(c) == c.execs
RowsIterated(c) == c.rowsIterated
ConnErrs(c) == c.connErrs
StmtErrs(c) == c.stmtErrs
TxOpenErrs(c) == c.txOpenErrs
TxCloseErrs(c) == c.txCloseErrs
QueryErrs(c) == c.queryErrs
ExecErrs(c) == c.execErrs
RowErrs(c) == c.rowErrs

\* atomic.AddInt64(&c.f, n)
AddInt64(c, f, n) == [c EXCEPT ![f] = @ + n]

Mut_ConnOpened_NoGauge(c, err) == AddInt64(c, "totalConns", 1)
CounterHook_ConnOpened(c, err) ==
    AddInt64(AddInt64(c, "openConns", 1), "totalConns", 1)

Mut_ConnClosed_CountsErr(c, err) ==
    IF err = Nil THEN AddInt64(c, "openConns", -1) ELSE AddInt64(c, "connErrs", 1)
CounterHook_ConnClosed(c, err) == AddInt64(c, "openConns", -1)

CounterHook_StmtPrepared(c, query, err) ==
    AddInt64(AddInt64(c, "openStmts", 1), "totalStmts", 1)

Mut_StmtClosed_OnlyNil(c, err) ==
    IF err = Nil THEN AddInt64(c, "openStmts", -1) ELSE c
CounterHook_StmtClosed(c, err) == AddInt64(c, "openStmts", -1)

CounterHook_TxBegan(c, err) ==
    AddInt64(AddInt64(c, "openTxs", 1), "totalTxs", 1)

Mut_TxCommitted_OnlyNil(c, err) ==
    IF err = Nil THEN AddInt64(AddInt64(c, "openTxs", -1), "committedTxs", 1) ELSE c
CounterHook_TxCommitted(c, err) ==
    AddInt64(AddInt64(c, "openTxs", -1), "committedTxs", 1)

CounterHook_TxRolledback(c, err) ==
    AddInt64(AddInt64(c, "openTxs", -1), "rolledbackTxs", 1)

Mut_Queried_AlsoExecs(c, query, err) ==
    AddInt64(AddInt64(c, "queries", 1), "execs", 1)
CounterHook_Queried(c, query, err) == AddInt64(c, "queries", 1)

CounterHook_Execed(c, query, err) == AddInt64(c, "execs", 1)

CounterHook_RowIterated(c, err) == AddInt64(c, "rowsIterated", 1)

\* ------------------------------------------------------------------ events
Event(kind, query, err) == [kind |-> kind, query |-> query, err |-> err]

\* One Hook callback: h.<kind>(..., err) on a CounterHook with fields c.
Callback(c, ev) ==
    CASE ev.kind = "ConnOpened" -> CounterHook_ConnOpened(c, ev.err)
      [] ev.kind = "ConnClosed" -> CounterHook_ConnClosed(c, ev.err)
      [] ev.kind = "StmtPrepared" -> CounterHook_StmtPrepared(c, ev.query, ev.err)
      [] ev.kind = "StmtClosed" -> CounterHook_StmtClosed(c, ev.err)
      [] ev.kind = "TxBegan" -> CounterHook_TxBegan(c, ev.err)
      [] ev.kind = "TxCommitted" -> CounterHook_TxCommitted(c, ev.err)
      [] ev.kind = "TxRolledback" -> CounterHook_TxRolledback(c, ev.err)
      [] ev.kind = "Queried" -> CounterHook_Queried(c, ev.query, ev.err)
      [] ev.kind = "Execed" -> CounterHook_Execed(c, ev.query, ev.err)
      [] ev.kind = "RowIterated" -> CounterHook_RowIterated(c, ev.err)

\* h.<kind>(..., err) on the hook h of the list: a CounterHook counts; a Hook
\* of the application's own has no part in the CounterHook's fields.
CallbackOf(hook, c, ev) == IF hook = "CounterHook" THEN Callback(c, ev) ELSE c

\* for _, h := range s.hooks { h.<kind>(...) }
RECURSIVE Dispatch(_, _, _)
Mut_Dispatch_FirstOnly(hs, c, ev) == IF hs = <<>> THEN c ELSE Callback(c, ev)
Dispatch(hs, c, ev) ==
    IF hs = <<>> THEN c
    ELSE Dispatch(Tail(hs), CallbackOf(Head(hs), c, ev), ev)

\* The order in which "for _, h := range s.hooks" reaches the entries of hooks.
RangeOrder(hs) == [i \in 1 .. Len(hs) |-> i]

\* The fields of the CounterHook after the events evs were dispatched in order.
RECURSIVE DispatchAll(_, _, _)
DispatchAll(hs, c, evs) ==
    IF evs = <<>> THEN c
    ELSE DispatchAll(hs, Dispatch(hs, c, Head(evs)), Tail(evs))

\* ------------------------------------------------------------ the backend
\* A backend connection is known by the optional interfaces it implements.
BackendConn(isQ, isE) == [isQ |-> isQ, isE |-> isE]
\* A backend statement is known by whether it is a driver.ColumnConverter.
BackendStmt(isCc) == [isCc |-> isCc]
\* A backend cursor is known by the rows it still holds.
BackendRows(k) == [left |-> k]

\* What fakeRows.Next and any real cursor may answer: a row while one is left,
\* io.EOF when none is, or an error at any time.
NextResults(r) == IF r.left > 0 THEN {Nil, AnErr} ELSE {EOF, AnErr}

\* ------------------------------------------------------------- the proxies
TheDriver == "statsDriver"
\* A second driver made by another New(open) call, with hooks of its own.
OtherDriver == "statsDriver2"

\* c.d, s.d, r.d, t.d: the driver a proxy reports to and hands on to the
\* proxies it creates.
Mut_DriverOf_Global(p) == TheDriver
DriverOf(p) == p.d

\* s.open(name): the connection string the open function is called with.
Mut_OpenName_Dropped(name) == ""
OpenName(name) == name

\* statsDriver.Open, after the open function succeeded: the proxy type chosen
\* from the backend connection's optional interfaces.
Mut_WrapConn_AlwaysBoth(c) == "statsExecerQueryer"
WrapConn(c) ==
    IF c.isE /\ c.isQ THEN "statsExecerQueryer"
    ELSE IF c.isQ THEN "statsQueryer"
    ELSE IF c.isE THEN "statsExecer"
    ELSE "statsConn"

\* The method set of each connection proxy type (Go embedding: statsQueryer and
\* statsExecer embed *statsConn, statsExecerQueryer embeds all three).
ConnMethods(kind) ==
    {"Prepare", "Close", "Begin"}
      \cup (IF kind \in {"statsQueryer", "statsExecerQueryer"} THEN {"Query"} ELSE {})
      \cup (IF kind \in {"statsExecer", "statsExecerQueryer"} THEN {"Exec"} ELSE {})

\* c.(driver.Queryer) and c.(driver.Execer) asked of a proxy.
IsQueryer(p) == "Query" \in ConnMethods(p.kind)
IsExecer(p) == "Exec" \in ConnMethods(p.kind)

\* statsConn.Prepare, after the backend succeeded: the statement proxy type.
Mut_WrapStmt_NeverCc(s) == "statsStmt"
WrapStmt(s) == IF s.isCc THEN "statsColumnConverter" ELSE "statsStmt"

StmtMethods(kind) ==
    {"Close", "NumInput", "Exec", "Query"}
      \cup (IF kind = "statsColumnConverter" THEN {"ColumnConverter"} ELSE {})

\* s.(driver.ColumnConverter) asked of a statement proxy.
IsColumnConverter(p) == "ColumnConverter" \in StmtMethods(p.kind)

\* statsDriver.Open on the driver s: the value returned with err, given the open
\* function's c. The root of a proxy is the driver whose Open it descends from.
Mut_OpenResult_NilOnError(s, c, err) ==
    IF err # Nil THEN NilConn
    ELSE [d |-> s, root |-> s, wrapped |-> c, kind |-> WrapConn(c), closes |-> 0]
OpenResult(s, c, err) ==
    IF err # Nil THEN c
    ELSE [d |-> s, root |-> s, wrapped |-> c, kind |-> WrapConn(c), closes |-> 0]

\* "return err" at the end of every proxy method: the error the caller gets when
\* the backend returned err and the hooks hs were called with it.
Mut_Returned_Swallow(hs, err) == Nil
Mut_Returned_HookVeto(hs, err) == IF hs # <<>> /\ err = Nil THEN AnErr ELSE err
Returned(hs, err) == err

\* statsDriver.Open: the events one Open call dispatches.
OpenEvents(err) == <<Event("ConnOpened", EmptyQuery, err)>>

\* statsConn.Close: the events one Close call dispatches.
Mut_ConnCloseEvents_OnlyNil(err) ==
    IF err = Nil THEN <<Event("ConnClosed", EmptyQuery, err)>> ELSE <<>>
ConnCloseEvents(err) == <<Event("ConnClosed", EmptyQuery, err)>>

\* statsTx.Commit and statsTx.Rollback: the events one call dispatches.
Mut_CommitEvents_OnlyNil(err) ==
    IF err = Nil THEN <<Event("TxCommitted", EmptyQuery, err)>> ELSE <<>>
CommitEvents(err) == <<Event("TxCommitted", EmptyQuery, err)>>
RollbackEvents(err) == <<Event("TxRolledback", EmptyQuery, err)>>

\* statsRows.Next: the events one Next call dispatches, given the backend's answer.
Mut_NextEvents_CountEOF(err) == <<Event("RowIterated", EmptyQuery, err)>>
NextEvents(err) ==
    IF err # EOF THEN <<Event("RowIterated", EmptyQuery, err)>> ELSE <<>>

\* ----------------------------------------------------------------- tallies
Ops ==
    {"AddHook", "Open", "ConnClose", "Prepare", "Begin", "ConnQuery",
     "ConnExec", "StmtClose", "StmtExec", "StmtQuery", "ColumnConverter",
     "NumInput", "Columns", "RowsClose", "Next", "Commit", "Rollback"}

\* A tally maps what was counted to how often; what never happened has no entry.
Cnt(tally, k) == IF k \in DOMAIN tally THEN tally[k] ELSE 0
Inc(tally, k) ==
    IF k \in DOMAIN tally THEN [tally EXCEPT ![k] = @ + 1] ELSE tally @@ (k :> 1)

RECURSIVE SumOver(_, _)
SumOver(tally, K) ==
    IF K = {} THEN 0
    ELSE LET k == CHOOSE x \in K : TRUE IN tally[k] + SumOver(tally, K \ {k})

\* Calls of one operation that returned err, and all its calls.
Made(op, err) == Cnt(calls, <<op, err>>)
MadeAll(op) == SumOver(calls, {k \in DOMAIN calls : k[1] = op})
\* Calls the proxies made on one backend method.
Forwarded(method) == SumOver(backend, {k \in DOMAIN backend : k[1] = method})
\* Calls on one backend method that the backend answered with err.
Answered(method, err) == Cnt(backend, <<method, err>>)
\* Events of one kind dispatched with err, and all events of that kind.
Sent(kind, err) ==
    SumOver(events, {e \in DOMAIN events : e.kind = kind /\ e.err = err})
SentAll(kind) == SumOver(events, {e \in DOMAIN events : e.kind = kind})

RECURSIVE Record(_, _)
Record(tally, evs) ==
    IF evs = <<>> THEN tally
    ELSE Record(Inc(tally, Head(evs)), Tail(evs))

\* --------------------------------- driver.go: the built-in counter callbacks
Legacy_ConnOpened(c) == AddInt64(AddInt64(c, "openConns", 1), "totalConns", 1)
Legacy_ConnClosed(c) == AddInt64(c, "openConns", -1)
Legacy_StmtPrepared(c) == AddInt64(AddInt64(c, "openStmts", 1), "totalStmts", 1)
Legacy_StmtClosed(c) == AddInt64(c, "openStmts", -1)
Legacy_TxBegan(c) == AddInt64(AddInt64(c, "openTxs", 1), "totalTxs", 1)
Legacy_TxCommitted(c) == AddInt64(AddInt64(c, "openTxs", -1), "committedTxs", 1)
Legacy_TxRolledback(c) == AddInt64(AddInt64(c, "openTxs", -1), "rolledbackTxs", 1)
Legacy_Queried(c) == AddInt64(c, "queries", 1)
Legacy_Execed(c) == AddInt64(c, "execs", 1)
Legacy_RowIterated(c) == AddInt64(c, "rowsIterated", 1)

\* The built-in callback each operation of driver.go calls.
LegacyEvent(op) ==
    CASE op = "Open" -> "ConnOpened"
      [] op = "ConnClose" -> "ConnClosed"
      [] op = "Prepare" -> "StmtPrepared"
      [] op = "StmtClose" -> "StmtClosed"
      [] op = "Begin" -> "TxBegan"
      [] op = "Commit" -> "TxCommitted"
      [] op = "Rollback" -> "TxRolledback"
      [] op \in {"ConnQuery", "StmtQuery"} -> "Queried"
      [] op \in {"ConnExec", "StmtExec"} -> "Execed"
      [] op = "Next" -> "RowIterated"

\* What one call does to the built-in counters of driver.go, given the
\* backend's answer: Open, Prepare, Begin, Query, Exec and Next call their
\* callback inside "if err == nil", Close, Commit and Rollback call theirs
\* whatever the backend answered, and the other methods call none.
LegacyCall(dd, op, err) ==
    CASE op = "Open" -> IF err = Nil THEN Legacy_ConnOpened(dd) ELSE dd
      [] op = "ConnClose" -> Legacy_ConnClosed(dd)
      [] op = "Prepare" -> IF err = Nil THEN Legacy_StmtPrepared(dd) ELSE dd
      [] op = "StmtClose" -> Legacy_StmtClosed(dd)
      [] op = "Begin" -> IF err = Nil THEN Legacy_TxBegan(dd) ELSE dd
      [] op = "Commit" -> Legacy_TxCommitted(dd)
      [] op = "Rollback" -> Legacy_TxRolledback(dd)
      [] op \in {"ConnQuery", "StmtQuery"} ->
            IF err = Nil THEN Legacy_Queried(dd) ELSE dd
      [] op \in {"ConnExec", "StmtExec"} ->
            IF err = Nil THEN Legacy_Execed(dd) ELSE dd
      [] op = "Next" -> IF err = Nil THEN Legacy_RowIterated(dd) ELSE dd
      [] OTHER -> dd

\* What every call does besides its own effect: it is counted, the backend
\* method it forwards to is counted, and its events reach every hook of the
\* driver s in order before it returns. The calls and events of OtherDriver
\* are counted apart, in other. The driver of driver.go is given the same
\* call with the same answer of the backend, so that its built-in counters d
\* stand next to those of the CounterHook.
ReturnsAt(s, op, err, method, evs) ==
    /\ fuel > 0
    /\ fuel' = fuel - 1
    /\ IF s = TheDriver
       THEN /\ calls' = Inc(calls, <<op, Returned(hooks, err)>>)
            /\ bare' = IF op = "AddHook" THEN bare
                       ELSE Inc(bare, <<op, Returned(<<>>, err)>>)
            /\ backend' = IF method = "" THEN backend ELSE Inc(backend, <<method, err>>)
            /\ events' = Record(events, evs)
            /\ h' = DispatchAll(hooks, h, evs)
            /\ trail' = IF evs = <<>> THEN trail ELSE RangeOrder(hooks)
            /\ other' = other
            /\ d' = LegacyCall(d, op, err)
       ELSE /\ other' = [other EXCEPT
                   !.calls = Inc(@, <<op, Returned(other.hooks, err)>>),
                   !.events = Record(@, evs),
                   !.h = DispatchAll(other.hooks, @, evs)]
            /\ UNCHANGED <<calls, bare, backend, events, h, trail, d>>
    /\ UNCHANGED <<resetPc, resets, pre, snap, threads, frame, slice>>

\* A call on the driver TheDriver itself.
Returns(op, err, method, evs) == ReturnsAt(TheDriver, op, err, method, evs)

\* s.hooks of a new statsDriver: the nil slice, no backing array, nothing in
\* progress. An array is its cells (0 is the zeroed cell, a number n the hook
\* of the n-th AddHook call) and, for every cell, the AddHook call that wrote
\* it. got counts the callbacks of the dispatch in progress by hook.
NilSlice ==
    [mem |-> <<>>,
     hdr |-> [ptr |-> 0, len |-> 0],
     add |-> [pc |-> 0, id |-> 0, ptr |-> 0, len |-> 0, todo |-> {}],
     returned |-> 0,
     rd |-> [pc |-> "idle", ptr |-> 0, len |-> 0, i |-> 0, todo |-> {},
             before |-> 0, raced |-> FALSE],
     runs |-> 0,
     got |-> [n \in 1 .. MaxAdds |-> 0]]

\* No call is being taken statement by statement.
NoFrame ==
    [op |-> "", pc |-> 0, i |-> 0, k |-> 0, err |-> Nil, log |-> <<>>, stuck |-> 0]

\* ------------------------------------------------------------------- Init
\* The state after New(open) for both drivers and one AddHook call for each
\* hook in hs and in ohs.
InitHooked(n, hs, ohs) ==
    /\ hooks = hs
    /\ h = CounterHook
    /\ conns = <<>>
    /\ stmts = <<>>
    /\ txs = <<>>
    /\ rows = <<>>
    /\ calls = IF hs = <<>> THEN <<>> ELSE Inc(<<>>, <<"AddHook", Nil>>)
    /\ backend = <<>>
    /\ events = <<>>
    /\ fuel = n
    /\ trail = <<>>
    /\ bare = <<>>
    /\ handed = <<>>
    /\ threads = [t \in Threads |-> <<>>]
    /\ other = [hooks |-> ohs, h |-> CounterHook, events |-> <<>>,
                calls |-> IF ohs = <<>> THEN <<>> ELSE Inc(<<>>, <<"AddHook", Nil>>)]
    /\ passed = <<>>
    /\ frame = NoFrame
    /\ slice = NilSlice
    /\ d = LegacyCounters
    /\ resetPc = 0
    /\ resets = 0
    /\ pre = [f \in CounterFields |-> 0]
    /\ snap = <<>>

InitWith(n) == InitHooked(n, <<>>, <<>>)

Init == InitWith(MaxOps)

\* ---------------------------------------------------------------- actions
\* statsDriver.AddHook, called before any database activity as Driver.AddHook
\* asks.
AddHook ==
    /\ \A op \in Ops \ {"AddHook"} : MadeAll(op) = 0
    /\ hooks' = Append(hooks, "CounterHook")
    /\ Returns("AddHook", Nil, "", <<>>)
    /\ UNCHANGED <<proxyVars, handed, passed>>

\* statsDriver.AddHook with a Hook of the application's own.
AddUserHook ==
    /\ \A op \in Ops \ {"AddHook"} : MadeAll(op) = 0
    /\ hooks' = Append(hooks, "UserHook")
    /\ Returns("AddHook", Nil, "", <<>>)
    /\ UNCHANGED <<proxyVars, handed, passed>>

\* statsDriver.Open, on the driver s
OpenOn(s) ==
    \E name \in Names, err \in Errs, isQ, isE \in BOOLEAN :
        \E c \in (IF err # Nil THEN {NilConn} ELSE {}) \cup {BackendConn(isQ, isE)} :
            LET got == OpenResult(s, c, err) IN
            /\ err # Nil => ~isQ /\ ~isE
            /\ conns' = IF err # Nil THEN conns ELSE Append(conns, got)
            /\ handed' = IF err # Nil THEN Inc(handed, got = c) ELSE handed
            /\ passed' = Inc(passed, <<"Open.name", OpenName(name) = name>>)
            /\ ReturnsAt(s, "Open", err, "open", OpenEvents(err))
            /\ UNCHANGED <<hooks, stmts, txs, rows>>

Open == OpenOn(TheDriver)

\* Open on the second driver.
OpenOther == OpenOn(OtherDriver)

\* statsConn.Close
ConnClose ==
    \E i \in DOMAIN conns, err \in Errs :
        /\ conns' = [conns EXCEPT ![i].closes = @ + 1]
        /\ ReturnsAt(DriverOf(conns[i]), "ConnClose", err, "Conn.Close", ConnCloseEvents(err))
        /\ UNCHANGED <<hooks, handed, passed, stmts, txs, rows>>

\* statsConn.Prepare
Prepare ==
    \E i \in DOMAIN conns, query \in QueryTexts, err \in Errs, isCc \in BOOLEAN :
        LET s == BackendStmt(isCc) IN
        /\ err # Nil => ~isCc
        /\ IF err # Nil
           THEN stmts' = stmts
           ELSE stmts' = Append(stmts, [d |-> DriverOf(conns[i]),
                                        root |-> conns[i].root, wrapped |-> s,
                                        kind |-> WrapStmt(s), query |-> query,
                                        closes |-> 0, fails |-> 0, uses |-> 0])
        /\ ReturnsAt(DriverOf(conns[i]), "Prepare", err, "Conn.Prepare",
                   <<Event("StmtPrepared", query, err)>>)
        /\ UNCHANGED <<hooks, handed, passed, conns, txs, rows>>

\* statsConn.Begin
Begin ==
    \E i \in DOMAIN conns, err \in Errs :
        /\ IF err # Nil
           THEN txs' = txs
           ELSE txs' = Append(txs, [d |-> DriverOf(conns[i]), root |-> conns[i].root,
                                    ends |-> 0, terminals |-> 0])
        /\ ReturnsAt(DriverOf(conns[i]), "Begin", err, "Conn.Begin", <<Event("TxBegan", EmptyQuery, err)>>)
        /\ UNCHANGED <<hooks, handed, passed, conns, stmts, rows>>

\* The result-set proxy statsQueryer.Query and statsStmt.Query wrap a cursor in.
NewRows(dr, rt, k) ==
    [d |-> dr, root |-> rt, wrapped |-> BackendRows(k), k |-> k, evs |-> 0,
     errs |-> 0, eofs |-> 0]

\* statsQueryer.Query
ConnQuery ==
    \E i \in DOMAIN conns, query \in QueryTexts, err \in Errs, k \in RowCounts :
        /\ IsQueryer(conns[i])
        /\ err # Nil => k = 0
        /\ IF err # Nil
           THEN rows' = rows
           ELSE rows' = Append(rows, NewRows(DriverOf(conns[i]), conns[i].root, k))
        /\ ReturnsAt(DriverOf(conns[i]), "ConnQuery", err, "Queryer.Query", <<Event("Queried", query, err)>>)
        /\ UNCHANGED <<hooks, handed, passed, conns, stmts, txs>>

\* statsExecer.Exec
ConnExec ==
    \E i \in DOMAIN conns, query \in QueryTexts, err \in Errs :
        /\ IsExecer(conns[i])
        /\ ReturnsAt(DriverOf(conns[i]), "ConnExec", err, "Execer.Exec", <<Event("Execed", query, err)>>)
        /\ UNCHANGED <<hooks, handed, passed, conns, stmts, txs, rows>>

\* statsStmt.Close
StmtClose ==
    \E i \in DOMAIN stmts, err \in Errs :
        /\ stmts' = [stmts EXCEPT ![i].closes = @ + 1]
        /\ ReturnsAt(DriverOf(stmts[i]), "StmtClose", err, "Stmt.Close",
                   <<Event("StmtClosed", EmptyQuery, err)>>)
        /\ UNCHANGED <<hooks, handed, passed, conns, txs, rows>>

\* s.query: the query text a statement proxy reports, the one its Prepare got.
Mut_StmtQueryText_Latest(s) == stmts[Len(stmts)].query
StmtQueryText(s) == s.query

\* statsStmt.Exec
StmtExec ==
    \E i \in DOMAIN stmts, err \in Errs :
        /\ stmts' = [stmts EXCEPT ![i].fails = IF err # Nil THEN @ + 1 ELSE @,
                                  ![i].uses = @ + 1]
        /\ ReturnsAt(DriverOf(stmts[i]), "StmtExec", err, "Stmt.Exec",
                   <<Event("Execed", StmtQueryText(stmts[i]), err)>>)
        /\ UNCHANGED <<hooks, handed, passed, conns, txs, rows>>

\* statsStmt.Query
StmtQuery ==
    \E i \in DOMAIN stmts, err \in Errs, k \in RowCounts :
        /\ err # Nil => k = 0
        /\ stmts' = [stmts EXCEPT ![i].fails = IF err # Nil THEN @ + 1 ELSE @,
                                  ![i].uses = @ + 1]
        /\ IF err # Nil
           THEN rows' = rows
           ELSE rows' = Append(rows, NewRows(DriverOf(stmts[i]), stmts[i].root, k))
        /\ ReturnsAt(DriverOf(stmts[i]), "StmtQuery", err, "Stmt.Query",
                   <<Event("Queried", StmtQueryText(stmts[i]), err)>>)
        /\ UNCHANGED <<hooks, handed, passed, conns, txs>>

\* The methods that are one line, "return x.wrapped.M(...)": the value they
\* return, given the backend's v, and the events they dispatch.
ForwardedResult(v) == v
Mut_ForwardEvents_RowsClosed(method) ==
    IF method = "Rows.Close" THEN <<Event("StmtClosed", EmptyQuery, Nil)>> ELSE <<>>
ForwardEvents(method) == <<>>

\* statsColumnConverter.ColumnConverter
StmtColumnConverter ==
    \E i \in DOMAIN stmts, vc \in Converters :
        /\ IsColumnConverter(stmts[i])
        /\ passed' = Inc(passed, <<"ColumnConverter", ForwardedResult(vc) = vc>>)
        /\ ReturnsAt(DriverOf(stmts[i]), "ColumnConverter", Nil,
                     "ColumnConverter.ColumnConverter",
                     ForwardEvents("ColumnConverter.ColumnConverter"))
        /\ UNCHANGED <<hooks, handed, conns, stmts, txs, rows>>

\* statsStmt.NumInput
StmtNumInput ==
    \E i \in DOMAIN stmts, n \in NumInputs :
        /\ passed' = Inc(passed, <<"NumInput", ForwardedResult(n) = n>>)
        /\ ReturnsAt(DriverOf(stmts[i]), "NumInput", Nil, "Stmt.NumInput",
                     ForwardEvents("Stmt.NumInput"))
        /\ UNCHANGED <<hooks, handed, conns, stmts, txs, rows>>

\* statsRows.Columns
RowsColumns ==
    \E i \in DOMAIN rows, cols \in ColumnLists :
        /\ passed' = Inc(passed, <<"Columns", ForwardedResult(cols) = cols>>)
        /\ ReturnsAt(DriverOf(rows[i]), "Columns", Nil, "Rows.Columns",
                     ForwardEvents("Rows.Columns"))
        /\ UNCHANGED <<hooks, handed, conns, stmts, txs, rows>>

\* statsRows.Close
RowsClose ==
    \E i \in DOMAIN rows, err \in Errs :
        /\ passed' = Inc(passed, <<"RowsClose", ForwardedResult(err) = err>>)
        /\ ReturnsAt(DriverOf(rows[i]), "RowsClose", err, "Rows.Close",
                     ForwardEvents("Rows.Close"))
        /\ UNCHANGED <<hooks, handed, conns, stmts, txs, rows>>

\* statsRows.Next
RowsNext ==
    \E i \in DOMAIN rows :
        \E err \in NextResults(rows[i].wrapped) :
            LET evs == NextEvents(err) IN
            /\ rows' = [rows EXCEPT
                   ![i].wrapped.left = IF err = Nil THEN @ - 1 ELSE @,
                   ![i].evs = @ + Len(evs),
                   ![i].errs = IF err = AnErr THEN @ + 1 ELSE @,
                   ![i].eofs = IF err = EOF THEN @ + 1 ELSE @]
            /\ ReturnsAt(DriverOf(rows[i]), "Next", err, "Rows.Next", evs)
            /\ UNCHANGED <<hooks, handed, passed, conns, stmts, txs>>

\* statsTx has the fields d and wrapped and no record of having ended: Commit
\* and Rollback go on to the backend whatever was called on t before.
Mut_TxForwards_Once(t) == t.ends = 0
TxForwards(t) == TRUE

\* statsTx.Commit
Commit ==
    \E i \in DOMAIN txs, err \in Errs :
        LET evs == IF TxForwards(txs[i]) THEN CommitEvents(err) ELSE <<>> IN
        /\ txs' = [txs EXCEPT ![i].ends = @ + 1, ![i].terminals = @ + Len(evs)]
        /\ ReturnsAt(DriverOf(txs[i]), "Commit", err,
                     IF TxForwards(txs[i]) THEN "Tx.Commit" ELSE "", evs)
        /\ UNCHANGED <<hooks, handed, passed, conns, stmts, rows>>

\* statsTx.Rollback
Rollback ==
    \E i \in DOMAIN txs, err \in Errs :
        LET evs == IF TxForwards(txs[i]) THEN RollbackEvents(err) ELSE <<>> IN
        /\ txs' = [txs EXCEPT ![i].ends = @ + 1, ![i].terminals = @ + Len(evs)]
        /\ ReturnsAt(DriverOf(txs[i]), "Rollback", err,
                     IF TxForwards(txs[i]) THEN "Tx.Rollback" ELSE "", evs)
        /\ UNCHANGED <<hooks, handed, passed, conns, stmts, rows>>

Next ==
    \/ AddHook
    \/ Open
    \/ ConnClose
    \/ Prepare
    \/ Begin
    \/ ConnQuery
    \/ ConnExec
    \/ StmtClose
    \/ StmtExec
    \/ StmtQuery
    \/ StmtColumnConverter
    \/ RowsNext
    \/ Commit
    \/ Rollback

Spec == Init /\ [][Next]_vars

\* The connection lifecycle, with transactions and batch execs in between.
NextConn ==
    \/ AddHook
    \/ Open
    \/ ConnClose
    \/ Begin
    \/ Rollback
    \/ ConnExec

SpecConn == InitWith(MaxConnOps) /\ [][NextConn]_vars

\* Every operation that has a built-in callback in driver.go, on a driver
\* with one CounterHook registered.
NextPair ==
    \/ Open
    \/ ConnClose
    \/ Prepare
    \/ Begin
    \/ ConnQuery
    \/ ConnExec
    \/ StmtClose
    \/ StmtExec
    \/ StmtQuery
    \/ RowsNext
    \/ Commit
    \/ Rollback

SpecPair == InitHooked(MaxPairOps, <<"CounterHook">>, <<>>) /\ [][NextPair]_vars

\* The statement lifecycle.
NextStmt ==
    \/ AddHook
    \/ Open
    \/ Prepare
    \/ StmtClose
    \/ StmtExec
    \/ StmtQuery
    \/ StmtColumnConverter

SpecStmt == InitWith(MaxStmtOps) /\ [][NextStmt]_vars

\* Result sets and their iteration.
NextRows ==
    \/ AddHook
    \/ Open
    \/ ConnQuery
    \/ RowsNext

SpecRows == InitWith(MaxRowsOps) /\ [][NextRows]_vars

\* The transaction lifecycle.
NextTx ==
    \/ AddHook
    \/ Open
    \/ Begin
    \/ Commit
    \/ Rollback

SpecTx == InitWith(MaxTxOps) /\ [][NextTx]_vars

\* The methods that only forward, on statements and result sets made with one
\* hook registered.
NextForward ==
    \/ Open
    \/ Prepare
    \/ StmtQuery
    \/ StmtNumInput
    \/ StmtColumnConverter
    \/ RowsColumns
    \/ RowsClose

SpecForward ==
    InitHooked(MaxForwardOps, <<"CounterHook">>, <<>>) /\ [][NextForward]_vars

\* ------------------------------------ statsConn.Close, statement by statement
\* The statements of a proxy method in the order they are written:
\*     err := c.wrapped.Close();  c.d.ConnClosed(err);  return err
Mut_CloseStatements_DispatchFirst == <<"dispatch", "backend", "return">>
CloseStatements == <<"backend", "dispatch", "return">>

\* A CounterHook callback is a few atomic adds and returns; a callback of a
\* Hook of the application's own returns or never does.
MayReturn(hook) == IF hook = "CounterHook" THEN {TRUE} ELSE BOOLEAN

\* "h.ConnClosed(err)" is a plain call: the loop goes on to the next hook, and
\* the method to its return, when the callback has returned and not before.
Mut_Waits_Async(hook) == FALSE
Waits(hook) == TRUE

\* The application calls Close on the connection proxy i; no other stepwise
\* call is in progress.
CloseStart ==
    \E i \in DOMAIN conns :
        /\ fuel > 0
        /\ frame.pc = 0
        /\ frame' = [NoFrame EXCEPT !.op = "ConnClose", !.pc = 1, !.i = i]
        /\ UNCHANGED <<hooks, h, proxyVars, calls, backend, events, fuel, trail, bare,
                       handed, threads, other, passed, slice, legacyVars>>

\* The next statement of the Close in progress. The dispatch statement is the
\* loop "for _, h := range s.hooks { h.ConnClosed(err) }": one callback per
\* step, then the loop's exit. What each statement did is logged with the
\* error value it saw. The first callback that never returns is remembered in
\* stuck; the call takes no further step then.
CloseStep ==
    /\ frame.pc \in DOMAIN CloseStatements
    /\ frame.stuck # 0 => ~Waits(hooks[frame.stuck])
    /\ \/ /\ CloseStatements[frame.pc] = "backend"
          /\ \E err \in Errs :
                /\ frame' = [frame EXCEPT !.err = err, !.pc = @ + 1,
                                          !.log = Append(@, <<"backend", err>>)]
                /\ backend' = Inc(backend, <<"Conn.Close", err>>)
          /\ UNCHANGED <<h, conns, calls, events, fuel, trail, bare>>
       \/ /\ CloseStatements[frame.pc] = "dispatch"
          /\ IF frame.k < Len(hooks)
             THEN \E returns \in MayReturn(hooks[frame.k + 1]) :
                    /\ h' = IF returns
                            THEN DispatchAll(<<hooks[frame.k + 1]>>, h,
                                             ConnCloseEvents(frame.err))
                            ELSE h
                    /\ frame' = [frame EXCEPT
                           !.k = @ + 1,
                           !.log = Append(@, <<"hook", frame.err>>),
                           !.stuck = IF returns \/ @ # 0 THEN @ ELSE frame.k + 1]
             ELSE /\ h' = h
                  /\ frame' = [frame EXCEPT !.k = 0, !.pc = @ + 1]
          /\ UNCHANGED <<conns, calls, backend, events, fuel, trail, bare>>
       \/ /\ CloseStatements[frame.pc] = "return"
          /\ frame' = [frame EXCEPT !.pc = 0,
                                    !.log = Append(@, <<"return", frame.err>>)]
          /\ conns' = [conns EXCEPT ![frame.i].closes = @ + 1]
          /\ calls' = Inc(calls, <<"ConnClose", Returned(hooks, frame.err)>>)
          /\ bare' = Inc(bare, <<"ConnClose", Returned(<<>>, frame.err)>>)
          /\ events' = Record(events, ConnCloseEvents(frame.err))
          /\ trail' = RangeOrder(hooks)
          /\ fuel' = fuel - 1
          /\ UNCHANGED <<h, backend>>
    /\ UNCHANGED <<hooks, stmts, txs, rows, handed, threads, other, passed, slice,
                   legacyVars>>

NextSteps ==
    \/ AddHook
    \/ Open
    \/ CloseStart
    \/ CloseStep

SpecSteps == InitWith(MaxStepOps) /\ [][NextSteps]_vars

\* The same with hooks of the application's own, whose callbacks may never
\* return. The goroutine that runs Close is scheduled again and again, so a
\* Close that can take a step takes it.
NextBlock ==
    \/ AddHook
    \/ AddUserHook
    \/ Open
    \/ CloseStart
    \/ CloseStep

SpecBlock == InitWith(MaxBlockOps) /\ [][NextBlock]_vars /\ WF_vars(CloseStep)

\* Two drivers, each with one hook of its own added before any database
\* activity, and the proxies that descend from their connections down to the
\* rows of a statement's query.
NextRoots ==
    \/ Open
    \/ OpenOther
    \/ Prepare
    \/ StmtQuery
    \/ RowsNext

SpecRoots ==
    InitHooked(MaxRootOps, <<"CounterHook">>, <<"CounterHook">>) /\ [][NextRoots]_vars


\* ------------------------------------------- driver.go: built-in counters
\* The order in which Reset stores zero, which is also the order in which the
\* accessors are declared.
ResetOrder ==
    <<"openConns", "totalConns", "openStmts", "totalStmts", "openTxs",
      "totalTxs", "committedTxs", "rolledbackTxs", "queries", "execs",
      "rowsIterated">>

\* A call on the driver with built-in counters. The calls are made while no
\* Reset has been called and no reader has started loading.
LegacyReturns(op, err, method, dd) ==
    /\ fuel > 0
    /\ resets = 0
    /\ snap = <<>>
    /\ fuel' = fuel - 1
    /\ calls' = Inc(calls, <<op, err>>)
    /\ backend' = Inc(backend, <<method, err>>)
    /\ d' = dd
    /\ events' = IF dd = d THEN events ELSE Inc(events, Event(LegacyEvent(op), EmptyQuery, NoErr))
    /\ UNCHANGED <<hooks, h, trail, bare, handed, threads, sideVars, resetPc,
                   resets, pre, snap>>

\* driver.go statsDriver.Open
LegacyOpen ==
    \E err \in Errs, isQ, isE \in BOOLEAN :
        LET c == BackendConn(isQ, isE) IN
        /\ err # Nil => ~isQ /\ ~isE
        /\ IF err # Nil
           THEN conns' = conns
           ELSE conns' = Append(conns, OpenResult(TheDriver, c, err))
        /\ LegacyReturns("Open", err, "open",
                         LegacyCall(d, "Open", err))
        /\ UNCHANGED <<stmts, txs, rows>>

\* driver.go statsConn.Close
LegacyConnClose ==
    \E i \in DOMAIN conns, err \in Errs :
        /\ conns' = [conns EXCEPT ![i].closes = @ + 1]
        /\ LegacyReturns("ConnClose", err, "Conn.Close", LegacyCall(d, "ConnClose", err))
        /\ UNCHANGED <<stmts, txs, rows>>

\* driver.go statsConn.Prepare
LegacyPrepare ==
    \E i \in DOMAIN conns, query \in QueryTexts, err \in Errs, isCc \in BOOLEAN :
        LET s == BackendStmt(isCc) IN
        /\ err # Nil => ~isCc
        /\ IF err # Nil
           THEN stmts' = stmts
           ELSE stmts' = Append(stmts, [d |-> conns[i].d, root |-> conns[i].d,
                                        wrapped |-> s, kind |-> WrapStmt(s),
                                        query |-> query, closes |-> 0,
                                        fails |-> 0, uses |-> 0])
        /\ LegacyReturns("Prepare", err, "Conn.Prepare",
                         LegacyCall(d, "Prepare", err))
        /\ UNCHANGED <<conns, txs, rows>>

\* driver.go statsConn.Begin
LegacyBegin ==
    \E i \in DOMAIN conns, err \in Errs :
        /\ IF err # Nil
           THEN txs' = txs
           ELSE txs' = Append(txs, [d |-> conns[i].d, root |-> conns[i].d,
                                    ends |-> 0, terminals |-> 0])
        /\ LegacyReturns("Begin", err, "Conn.Begin",
                         LegacyCall(d, "Begin", err))
        /\ UNCHANGED <<conns, stmts, rows>>

\* driver.go statsQueryer.Query
LegacyConnQuery ==
    \E i \in DOMAIN conns, query \in QueryTexts, err \in Errs, k \in RowCounts :
        /\ IsQueryer(conns[i])
        /\ err # Nil => k = 0
        /\ IF err # Nil
           THEN rows' = rows
           ELSE rows' = Append(rows, NewRows(conns[i].d, conns[i].d, k))
        /\ LegacyReturns("ConnQuery", err, "Queryer.Query",
                         LegacyCall(d, "ConnQuery", err))
        /\ UNCHANGED <<conns, stmts, txs>>

\* driver.go statsExecer.Exec
LegacyConnExec ==
    \E i \in DOMAIN conns, query \in QueryTexts, err \in Errs :
        /\ IsExecer(conns[i])
        /\ LegacyReturns("ConnExec", err, "Execer.Exec",
                         LegacyCall(d, "ConnExec", err))
        /\ UNCHANGED <<conns, stmts, txs, rows>>

\* driver.go statsStmt.Close
LegacyStmtClose ==
    \E i \in DOMAIN stmts, err \in Errs :
        /\ stmts' = [stmts EXCEPT ![i].closes = @ + 1]
        /\ LegacyReturns("StmtClose", err, "Stmt.Close", LegacyCall(d, "StmtClose", err))
        /\ UNCHANGED <<conns, txs, rows>>

\* driver.go statsStmt.Exec
LegacyStmtExec ==
    \E i \in DOMAIN stmts, err \in Errs :
        /\ stmts' = [stmts EXCEPT ![i].fails = IF err # Nil THEN @ + 1 ELSE @]
        /\ LegacyReturns("StmtExec", err, "Stmt.Exec",
                         LegacyCall(d, "StmtExec", err))
        /\ UNCHANGED <<conns, txs, rows>>

\* driver.go statsStmt.Query
LegacyStmtQuery ==
    \E i \in DOMAIN stmts, err \in Errs, k \in RowCounts :
        /\ err # Nil => k = 0
        /\ stmts' = [stmts EXCEPT ![i].fails = IF err # Nil THEN @ + 1 ELSE @]
        /\ IF err # Nil
           THEN rows' = rows
           ELSE rows' = Append(rows, NewRows(stmts[i].d, stmts[i].d, k))
        /\ LegacyReturns("StmtQuery", err, "Stmt.Query",
                         LegacyCall(d, "StmtQuery", err))
        /\ UNCHANGED <<conns, txs>>

\* driver.go statsRows.Next
LegacyRowsNext ==
    \E i \in DOMAIN rows :
        \E err \in NextResults(rows[i].wrapped) :
            /\ rows' = [rows EXCEPT
                   ![i].wrapped.left = IF err = Nil THEN @ - 1 ELSE @,
                   ![i].evs = IF err = Nil THEN @ + 1 ELSE @,
                   ![i].errs = IF err = AnErr THEN @ + 1 ELSE @,
                   ![i].eofs = IF err = EOF THEN @ + 1 ELSE @]
            /\ LegacyReturns("Next", err, "Rows.Next",
                         LegacyCall(d, "Next", err))
            /\ UNCHANGED <<conns, stmts, txs>>

\* driver.go statsTx.Commit
LegacyCommit ==
    \E i \in DOMAIN txs, err \in Errs :
        /\ txs' = [txs EXCEPT ![i].ends = @ + 1, ![i].terminals = @ + 1]
        /\ LegacyReturns("Commit", err, "Tx.Commit", LegacyCall(d, "Commit", err))
        /\ UNCHANGED <<conns, stmts, rows>>

\* driver.go statsTx.Rollback
LegacyRollback ==
    \E i \in DOMAIN txs, err \in Errs :
        /\ txs' = [txs EXCEPT ![i].ends = @ + 1, ![i].terminals = @ + 1]
        /\ LegacyReturns("Rollback", err, "Tx.Rollback", LegacyCall(d, "Rollback", err))
        /\ UNCHANGED <<conns, stmts, rows>>

\* driver.go statsDriver.Reset is called: nothing is stored yet.
ResetCall ==
    /\ resets = 0
    /\ resets' = 1
    /\ pre' = d
    /\ resetPc' = 1
    /\ UNCHANGED <<hooks, h, conns, stmts, txs, rows, calls, backend, events,
                   trail, bare, handed, threads, sideVars, fuel, d, snap>>

\* driver.go statsDriver.Reset: its next atomic.StoreInt64. The call has
\* returned when resetPc is past the last field.
ResetStore ==
    /\ resetPc \in DOMAIN ResetOrder
    /\ d' = [d EXCEPT ![ResetOrder[resetPc]] = 0]
    /\ resetPc' = resetPc + 1
    /\ UNCHANGED <<hooks, h, conns, stmts, txs, rows, calls, backend, events,
                   trail, bare, handed, threads, sideVars, fuel, resets, pre, snap>>

\* A goroutine that reads counters through the accessors, one
\* atomic.LoadInt64 at a time, in the order the accessors are declared.
ReaderLoad ==
    /\ Len(snap) < MaxReads
    /\ Len(snap) < Len(ResetOrder)
    /\ snap' = Append(snap, d[ResetOrder[Len(snap) + 1]])
    /\ UNCHANGED <<hooks, h, conns, stmts, txs, rows, calls, backend, events,
                   trail, bare, handed, threads, sideVars, fuel, d, resetPc, resets, pre>>

NextReset ==
    \/ LegacyOpen
    \/ LegacyConnClose
    \/ LegacyPrepare
    \/ LegacyBegin
    \/ LegacyConnQuery
    \/ LegacyConnExec
    \/ LegacyStmtClose
    \/ LegacyStmtExec
    \/ LegacyStmtQuery
    \/ LegacyRowsNext
    \/ LegacyCommit
    \/ LegacyRollback
    \/ ResetCall
    \/ ResetStore
    \/ ReaderLoad

SpecReset == InitWith(MaxLegacyOps) /\ [][NextReset]_vars


\* ------------------------------- counterhook.go: callbacks run concurrently
\* The atomic.AddInt64 calls one callback makes, in program order. Each is one
\* indivisible step; another goroutine's adds may come between two of them.
Mut_AtomicAdds_RollbackUncounted(ev) ==
    CASE ev.kind = "ConnOpened" -> <<<<"openConns", 1>>, <<"totalConns", 1>>>>
      [] ev.kind = "ConnClosed" -> <<<<"openConns", -1>>>>
      [] ev.kind = "StmtPrepared" -> <<<<"openStmts", 1>>, <<"totalStmts", 1>>>>
      [] ev.kind = "StmtClosed" -> <<<<"openStmts", -1>>>>
      [] ev.kind = "TxBegan" -> <<<<"openTxs", 1>>, <<"totalTxs", 1>>>>
      [] ev.kind = "TxCommitted" -> <<<<"openTxs", -1>>, <<"committedTxs", 1>>>>
      [] ev.kind = "TxRolledback" -> <<<<"openTxs", -1>>>>
      [] ev.kind = "Queried" -> <<<<"queries", 1>>>>
      [] ev.kind = "Execed" -> <<<<"execs", 1>>>>
      [] ev.kind = "RowIterated" -> <<<<"rowsIterated", 1>>>>
Mut_AtomicAdds_GaugeOnly(ev) ==
    CASE ev.kind = "ConnOpened" -> <<<<"openConns", 1>>>>
      [] ev.kind = "ConnClosed" -> <<<<"openConns", -1>>>>
      [] ev.kind = "StmtPrepared" -> <<<<"openStmts", 1>>>>
      [] ev.kind = "StmtClosed" -> <<<<"openStmts", -1>>>>
      [] ev.kind = "TxBegan" -> <<<<"openTxs", 1>>>>
      [] ev.kind = "TxCommitted" -> <<<<"openTxs", -1>>, <<"committedTxs", 1>>>>
      [] ev.kind = "TxRolledback" -> <<<<"openTxs", -1>>, <<"rolledbackTxs", 1>>>>
      [] ev.kind = "Queried" -> <<<<"queries", 1>>>>
      [] ev.kind = "Execed" -> <<<<"execs", 1>>>>
      [] ev.kind = "RowIterated" -> <<<<"rowsIterated", 1>>>>
AtomicAdds(ev) ==
    CASE ev.kind = "ConnOpened" -> <<<<"openConns", 1>>, <<"totalConns", 1>>>>
      [] ev.kind = "ConnClosed" -> <<<<"openConns", -1>>>>
      [] ev.kind = "StmtPrepared" -> <<<<"openStmts", 1>>, <<"totalStmts", 1>>>>
      [] ev.kind = "StmtClosed" -> <<<<"openStmts", -1>>>>
      [] ev.kind = "TxBegan" -> <<<<"openTxs", 1>>, <<"totalTxs", 1>>>>
      [] ev.kind = "TxCommitted" -> <<<<"openTxs", -1>>, <<"committedTxs", 1>>>>
      [] ev.kind = "TxRolledback" -> <<<<"openTxs", -1>>, <<"rolledbackTxs", 1>>>>
      [] ev.kind = "Queried" -> <<<<"queries", 1>>>>
      [] ev.kind = "Execed" -> <<<<"execs", 1>>>>
      [] ev.kind = "RowIterated" -> <<<<"rowsIterated", 1>>>>

\* The callbacks the goroutines make: every kind, with a nil error and with an
\* error.
ConcEvents ==
    {Event(kind, EmptyQuery, err) :
        kind \in {"ConnOpened", "ConnClosed", "StmtPrepared", "StmtClosed",
                  "TxBegan", "TxCommitted", "TxRolledback", "Queried", "Execed",
                  "RowIterated"},
        err \in Errs}

\* A goroutine that is in no callback calls one on the CounterHook.
CallbackStart ==
    \E t \in Threads, ev \in ConcEvents :
        /\ fuel > 0
        /\ threads[t] = <<>>
        /\ fuel' = fuel - 1
        /\ threads' = [threads EXCEPT ![t] = AtomicAdds(ev)]
        /\ events' = Inc(events, ev)
        /\ UNCHANGED <<hooks, h, conns, stmts, txs, rows, calls, backend, trail,
                       bare, handed, sideVars, legacyVars>>

\* A goroutine inside a callback does its next atomic.AddInt64; the callback
\* has returned when none is left.
CallbackStep ==
    \E t \in Threads :
        /\ threads[t] # <<>>
        /\ h' = AddInt64(h, Head(threads[t])[1], Head(threads[t])[2])
        /\ threads' = [threads EXCEPT ![t] = Tail(@)]
        /\ UNCHANGED <<hooks, conns, stmts, txs, rows, calls, backend, events,
                       fuel, trail, bare, handed, sideVars, legacyVars>>

NextConc ==
    \/ CallbackStart
    \/ CallbackStep

SpecConc == InitWith(MaxCallbacks) /\ [][NextConc]_vars


\* --------------------------- statsDriver.hooks: AddHook next to a dispatch
\* "s.hooks = append(s.hooks, h)" and "for _, h := range s.hooks" touch the
\* slice header and the backing array with plain loads and stores and no
\* lock: run at the same time they are a data race. The header is several
\* words, so its stores and loads are separate steps; a cell written by an
\* AddHook call that had not returned when the dispatch started may still read
\* as zero.
Cap(ptr) == IF ptr = 0 THEN 0 ELSE Len(slice.mem[ptr].cells)

\* append's growth of a small slice: 0, 1, 2, 4, ...
GrownCap(cap) == IF cap = 0 THEN 1 ELSE 2 * cap

\* append(s.hooks, h): the backing array written, in place when the capacity
\* allows and else a new array with the old cells copied, for the AddHook
\* call id.
Appended(id) ==
    LET n == slice.hdr.len
        ptr == slice.hdr.ptr
    IN  IF n < Cap(ptr)
        THEN [mem |-> [slice.mem EXCEPT ![ptr].cells[n + 1] = id,
                                        ![ptr].w[n + 1] = id],
              ptr |-> ptr]
        ELSE [mem |-> Append(slice.mem,
                        [cells |-> [j \in 1 .. GrownCap(Cap(ptr)) |->
                                      IF j <= n THEN slice.mem[ptr].cells[j]
                                      ELSE IF j = n + 1 THEN id ELSE 0],
                         w |-> [j \in 1 .. GrownCap(Cap(ptr)) |->
                                      IF j <= n + 1 THEN id ELSE 0]]),
              ptr |-> Len(slice.mem) + 1]

\* statsDriver.AddHook is called (AddHook calls come one after another, from
\* the goroutine that sets the driver up): append has written the array; the
\* header words are still to be stored.
AddStart ==
    /\ slice.add.pc = 0
    /\ slice.returned < MaxAdds
    /\ LET id == slice.returned + 1
           a == Appended(id)
       IN  slice' = [slice EXCEPT
               !.mem = a.mem,
               !.add = [pc |-> 1, id |-> id, ptr |-> a.ptr,
                        len |-> slice.hdr.len + 1, todo |-> {"ptr", "len"}],
               !.rd.raced = @ \/ slice.rd.pc \in {"load", "iter"}]
    /\ UNCHANGED <<hooks, h, proxyVars, calls, backend, events, fuel, trail, bare,
                   handed, threads, other, passed, frame, legacyVars>>

\* One word of the slice header is stored.
AddStore ==
    /\ slice.add.pc = 1
    /\ \E wd \in slice.add.todo :
          slice' = [slice EXCEPT !.hdr[wd] = slice.add[wd], !.add.todo = @ \ {wd}]
    /\ UNCHANGED <<hooks, h, proxyVars, calls, backend, events, fuel, trail, bare,
                   handed, threads, other, passed, frame, legacyVars>>

\* AddHook returns.
AddReturn ==
    /\ slice.add.pc = 1
    /\ slice.add.todo = {}
    /\ slice' = [slice EXCEPT !.add.pc = 0, !.returned = @ + 1]
    /\ UNCHANGED <<hooks, h, proxyVars, calls, backend, events, fuel, trail, bare,
                   handed, threads, other, passed, frame, legacyVars>>

\* A dispatch method is entered, e.g. statsDriver.ConnOpened: the hooks whose
\* AddHook call has returned by now are the ones registered before it.
DispatchStart ==
    /\ slice.rd.pc \in {"idle", "done", "crashed"}
    /\ slice.runs < MaxDispatches
    /\ slice' = [slice EXCEPT
           !.rd = [pc |-> "load", ptr |-> 0, len |-> 0, i |-> 0,
                   todo |-> {"ptr", "len"}, before |-> slice.returned,
                   raced |-> slice.add.pc # 0],
           !.runs = @ + 1,
           !.got = [n \in 1 .. MaxAdds |-> 0]]
    /\ UNCHANGED <<hooks, h, proxyVars, calls, backend, events, fuel, trail, bare,
                   handed, threads, other, passed, frame, legacyVars>>

\* "range s.hooks" loads one word of the slice header.
DispatchLoad ==
    /\ slice.rd.pc = "load"
    /\ \E wd \in slice.rd.todo :
          slice' = [slice EXCEPT
              !.rd[wd] = slice.hdr[wd],
              !.rd.todo = @ \ {wd},
              !.rd.pc = IF slice.rd.todo = {wd} THEN "iter" ELSE "load"]
    /\ UNCHANGED <<hooks, h, proxyVars, calls, backend, events, fuel, trail, bare,
                   handed, threads, other, passed, frame, legacyVars>>

\* What the loop may read in cell j of the array it loaded: nothing it can
\* call when the array is nil or shorter than j (the read runs past it) or
\* the cell is zeroed; the hook stored there, or still the zero, when the
\* AddHook call that wrote the cell had not returned when the dispatch began.
CellReads(j) ==
    IF slice.rd.ptr = 0 \/ j > Cap(slice.rd.ptr) THEN {0}
    ELSE LET a == slice.mem[slice.rd.ptr] IN
         IF a.w[j] = 0 THEN {0}
         ELSE IF a.w[j] <= slice.rd.before THEN {a.cells[j]}
         ELSE {a.cells[j], 0}

\* One turn of the loop: the next cell is read and the hook in it called; a
\* call on a nil or invalid interface value panics.
DispatchStep ==
    /\ slice.rd.pc = "iter"
    /\ IF slice.rd.i = slice.rd.len
       THEN slice' = [slice EXCEPT !.rd.pc = "done"]
       ELSE \E v \in CellReads(slice.rd.i + 1) :
              slice' = IF v = 0
                       THEN [slice EXCEPT !.rd.pc = "crashed"]
                       ELSE [slice EXCEPT !.rd.i = @ + 1, !.got[v] = @ + 1]
    /\ UNCHANGED <<hooks, h, proxyVars, calls, backend, events, fuel, trail, bare,
                   handed, threads, other, passed, frame, legacyVars>>

NextRace ==
    \/ AddStart
    \/ AddStore
    \/ AddReturn
    \/ DispatchStart
    \/ DispatchLoad
    \/ DispatchStep

SpecRace == Init /\ [][NextRace]_vars


\* ================================================================= claims
\* The one CounterHook is registered exactly once.
Once == hooks = <<"CounterHook">>

\* No proxy has been closed or ended more than once.
ClosedAtMostOnce ==
    /\ \A i \in DOMAIN conns : conns[i].closes <= 1
    /\ \A i \in DOMAIN stmts : stmts[i].closes <= 1
    /\ \A i \in DOMAIN txs : txs[i].ends <= 1

\* C1: with the CounterHook registered once and every connection proxy closed
\* at most once, TotalConns() is the number N of successful Open calls and
\* OpenConns() is N minus the number M of Close calls.
C1_ConnCounts ==
    (Once /\ \A i \in DOMAIN conns : conns[i].closes <= 1)
        => /\ TotalConns(h) = Made("Open", Nil)
           /\ OpenConns(h) = Made("Open", Nil) - MadeAll("ConnClose")

\* C1, as far as the code goes: the counts are right as long as no Open failed.
C1_ConnCounts_NoFailedOpen ==
    (Once /\ Made("Open", AnErr) = 0 /\ \A i \in DOMAIN conns : conns[i].closes <= 1)
        => /\ TotalConns(h) = Made("Open", Nil)
           /\ OpenConns(h) = Made("Open", Nil) - MadeAll("ConnClose")

\* C2: an Open that fails adds 1 to ConnErrs() and leaves TotalConns() and
\* OpenConns() as they were.
C2_FailedOpenCounted ==
    [][(Once /\ Made("Open", AnErr)' = Made("Open", AnErr) + 1)
          => /\ ConnErrs(h') = ConnErrs(h) + 1
             /\ TotalConns(h') = TotalConns(h)
             /\ OpenConns(h') = OpenConns(h)]_vars

\* C3: a result set whose cursor never fails has emitted one RowIterated event
\* per row handed out and none for io.EOF, so k events once it is exhausted;
\* no RowIterated event carries io.EOF, every event carries the result of its
\* Next call, and while no Next failed RowsIterated() is the number of rows
\* handed out and RowErrs() has not moved.
C3_RowsCounted ==
    /\ \A i \in DOMAIN rows :
           rows[i].errs = 0 =>
               /\ rows[i].evs = rows[i].k - rows[i].wrapped.left
               /\ rows[i].eofs > 0 => rows[i].evs = rows[i].k
    /\ Sent("RowIterated", EOF) = 0
    /\ Sent("RowIterated", Nil) = Made("Next", Nil)
    /\ SentAll("RowIterated") = Made("Next", Nil) + Made("Next", AnErr)
    /\ (Once /\ Made("Next", AnErr) = 0)
           => /\ RowsIterated(h) = Made("Next", Nil)
              /\ RowErrs(h) = 0

\* C3 witness: a one-row result set iterated to io.EOF, counted as 1.
C3_Witness ==
    /\ Once
    /\ Made("Next", EOF) > 0
    /\ RowsIterated(h) = 1
    /\ \E i \in DOMAIN rows :
           rows[i].k = 1 /\ rows[i].eofs > 0 /\ rows[i].errs = 0 /\ rows[i].evs = 1

\* C4: with B successful Begin calls, each transaction ended at most once and
\* no Commit or Rollback failing, TotalTxs() = B, OpenTxs() = B - C - R,
\* CommittedTxs() = C and RolledbackTxs() = R.
C4_TxCounts ==
    (/\ Once
     /\ \A i \in DOMAIN txs : txs[i].ends <= 1
     /\ Made("Commit", AnErr) = 0
     /\ Made("Rollback", AnErr) = 0)
        => /\ TotalTxs(h) = Made("Begin", Nil)
           /\ OpenTxs(h) =
                  Made("Begin", Nil) - Made("Commit", Nil) - Made("Rollback", Nil)
           /\ CommittedTxs(h) = Made("Commit", Nil)
           /\ RolledbackTxs(h) = Made("Rollback", Nil)

\* C4, as far as the code goes: the counts are right as long as no Begin failed.
C4_TxCounts_NoFailedBegin ==
    (/\ Once
     /\ \A i \in DOMAIN txs : txs[i].ends <= 1
     /\ Made("Begin", AnErr) = 0
     /\ Made("Commit", AnErr) = 0
     /\ Made("Rollback", AnErr) = 0)
        => /\ TotalTxs(h) = Made("Begin", Nil)
           /\ OpenTxs(h) =
                  Made("Begin", Nil) - Made("Commit", Nil) - Made("Rollback", Nil)
           /\ CommittedTxs(h) = Made("Commit", Nil)
           /\ RolledbackTxs(h) = Made("Rollback", Nil)

\* C4, the spec's example: two begins, one rollback and one commit.
C4_Example ==
    (/\ Once
     /\ Len(txs) = 2 /\ MadeAll("Begin") = 2
     /\ txs[1].ends = 1 /\ txs[2].ends = 1
     /\ Made("Commit", Nil) = 1 /\ Made("Rollback", Nil) = 1)
        => /\ TotalTxs(h) = 2 /\ OpenTxs(h) = 0
           /\ CommittedTxs(h) = 1 /\ RolledbackTxs(h) = 1

\* C5: a connection proxy is a Queryer exactly when its backend connection is,
\* and an Execer exactly when its backend connection is; every batch Query and
\* Exec made on a proxy was forwarded to the backend's Query and Exec.
C5_CapabilitiesPreserved ==
    /\ \A i \in DOMAIN conns :
           /\ IsQueryer(conns[i]) <=> conns[i].wrapped.isQ
           /\ IsExecer(conns[i]) <=> conns[i].wrapped.isE
    /\ Forwarded("Queryer.Query") = MadeAll("ConnQuery")
    /\ Forwarded("Execer.Exec") = MadeAll("ConnExec")

\* C5 witness: a query-only proxy that is no Execer, next to a proxy with both
\* capabilities, after a batch Query reached the backend.
C5_Witness ==
    /\ \E i \in DOMAIN conns :
           conns[i].wrapped = BackendConn(TRUE, FALSE)
               /\ IsQueryer(conns[i]) /\ ~IsExecer(conns[i])
    /\ \E i \in DOMAIN conns :
           conns[i].wrapped = BackendConn(TRUE, TRUE)
               /\ IsQueryer(conns[i]) /\ IsExecer(conns[i])
    /\ Forwarded("Queryer.Query") > 0

\* C6: a statement proxy is a ColumnConverter exactly when its backend
\* statement is, and every ColumnConverter call on a proxy was answered by the
\* backend statement.
C6_ColumnConverterPreserved ==
    /\ \A i \in DOMAIN stmts : IsColumnConverter(stmts[i]) <=> stmts[i].wrapped.isCc
    /\ Forwarded("ColumnConverter.ColumnConverter") = MadeAll("ColumnConverter")

\* C6 witness: a converting and a plain statement, after a ColumnConverter call.
C6_Witness ==
    /\ \E i \in DOMAIN stmts : stmts[i].wrapped.isCc /\ IsColumnConverter(stmts[i])
    /\ \E i \in DOMAIN stmts : ~stmts[i].wrapped.isCc /\ ~IsColumnConverter(stmts[i])
    /\ Forwarded("ColumnConverter.ColumnConverter") > 0

\* C7: every statement Close, whatever failed on the statement before,
\* dispatches exactly one StmtClosed event, which carries the backend's Close
\* result, and takes exactly 1 off OpenStmts().
C7_StmtCloseOnce ==
    [][\A e \in Errs :
           Made("StmtClose", e)' = Made("StmtClose", e) + 1
               => /\ SentAll("StmtClosed")' = SentAll("StmtClosed") + 1
                  /\ Sent("StmtClosed", e)' = Sent("StmtClosed", e) + 1
                  /\ Forwarded("Stmt.Close")' = Forwarded("Stmt.Close") + 1
                  /\ Once => OpenStmts(h') = OpenStmts(h) - 1]_vars

\* C7 witness: a statement closed once, with an error, after a call on it failed.
C7_Witness ==
    /\ Once
    /\ Made("StmtClose", AnErr) = 1
    /\ \E i \in DOMAIN stmts : stmts[i].fails > 0 /\ stmts[i].closes = 1

\* C8: for one Reset call with no concurrent writer, no reader has loaded one
\* counter already reset to zero and another still at its non-zero value from
\* before the Reset.
C8_ResetAtomic ==
    resets = 1 =>
        ~ \E a, b \in DOMAIN snap :
              /\ pre[ResetOrder[a]] # 0 /\ snap[a] = 0
              /\ pre[ResetOrder[b]] # 0 /\ snap[b] = pre[ResetOrder[b]]

C10_TotalsMonotonic ==
    [][Once =>
          /\ TotalConns(h') >= TotalConns(h)
          /\ TotalStmts(h') >= TotalStmts(h)
          /\ TotalTxs(h') >= TotalTxs(h)
          /\ TotalConns(h') # TotalConns(h)
                 => /\ TotalConns(h') = TotalConns(h) + 1
                    /\ Sent("ConnOpened", Nil)' = Sent("ConnOpened", Nil) + 1
          /\ TotalStmts(h') # TotalStmts(h)
                 => /\ TotalStmts(h') = TotalStmts(h) + 1
                    /\ Sent("StmtPrepared", Nil)' = Sent("StmtPrepared", Nil) + 1
          /\ TotalTxs(h') # TotalTxs(h)
                 => /\ TotalTxs(h') = TotalTxs(h) + 1
                    /\ Sent("TxBegan", Nil)' = Sent("TxBegan", Nil) + 1]_vars

\* Each proxy operation with the backend method it delegates to.
Delegations ==
    {<<"Open", "open">>, <<"Prepare", "Conn.Prepare">>, <<"Begin", "Conn.Begin">>,
     <<"ConnClose", "Conn.Close">>, <<"StmtClose", "Stmt.Close">>,
     <<"ConnQuery", "Queryer.Query">>, <<"StmtQuery", "Stmt.Query">>,
     <<"ConnExec", "Execer.Exec">>, <<"StmtExec", "Stmt.Exec">>,
     <<"Next", "Rows.Next">>, <<"Commit", "Tx.Commit">>,
     <<"Rollback", "Tx.Rollback">>}

\* C11: every proxy operation has called its backend method exactly once per
\* call (no retry, no skipped call) and has returned exactly the error the
\* backend returned: for each operation and each error value, the calls that
\* returned it are as many as the backend calls that answered it.
C11_ErrorsForwarded ==
    \A dl \in Delegations :
        /\ MadeAll(dl[1]) = Forwarded(dl[2])
        /\ \A e \in {Nil, AnErr, EOF} : Made(dl[1], e) = Answered(dl[2], e)

\* C11 witness: a Next that returned io.EOF and a Close that returned the
\* backend's error, next to calls that succeeded.
C11_Witness ==
    /\ Made("Next", EOF) = 1 /\ Answered("Rows.Next", EOF) = 1
    /\ Made("ConnClose", AnErr) = 1 /\ Answered("Conn.Close", AnErr) = 1
    /\ Made("Open", Nil) = 1

C13_OpenAlwaysEmits ==
    [][\A e \in Errs :
           Made("Open", e)' = Made("Open", e) + 1
               => /\ SentAll("ConnOpened")' = SentAll("ConnOpened") + 1
                  /\ Sent("ConnOpened", NoErr)' = Sent("ConnOpened", NoErr)
                         => Sent("ConnOpened", e)' = Sent("ConnOpened", e) + 1
                  /\ trail' = RangeOrder(hooks)
                  /\ TotalConns(h') = TotalConns(h) + Len(hooks)]_vars

\* C14: an Open whose open function failed has returned that error together
\* with the connection value the open function gave, untouched; connection
\* proxies exist only for the Opens that succeeded, and as long as none did
\* no event other than ConnOpened has been emitted.
C14_FailedOpenNoProxy ==
    /\ Made("Open", AnErr) = Answered("open", AnErr)
    /\ Cnt(handed, TRUE) = Made("Open", AnErr)
    /\ Cnt(handed, FALSE) = 0
    /\ Len(conns) = Made("Open", Nil)
    /\ Made("Open", Nil) = 0 => \A e \in DOMAIN events : e.kind = "ConnOpened"

\* C14 witness: two Opens failed, none succeeded, and the hook heard of both.
C14_Witness ==
    /\ Once
    /\ Made("Open", AnErr) = 2
    /\ Made("Open", Nil) = 0
    /\ conns = <<>>
    /\ Sent("ConnOpened", AnErr) = 2

\* The counter that every callback of one kind moves, and by how much, in
\* counterhook.go.
Moves(kind) ==
    CASE kind = "ConnOpened" -> <<"totalConns", 1>>
      [] kind = "ConnClosed" -> <<"openConns", -1>>
      [] kind = "StmtPrepared" -> <<"totalStmts", 1>>
      [] kind = "StmtClosed" -> <<"openStmts", -1>>
      [] kind = "TxBegan" -> <<"totalTxs", 1>>
      [] kind = "TxCommitted" -> <<"committedTxs", 1>>
      [] kind = "TxRolledback" -> <<"rolledbackTxs", 1>>
      [] kind = "Queried" -> <<"queries", 1>>
      [] kind = "Execed" -> <<"execs", 1>>
      [] kind = "RowIterated" -> <<"rowsIterated", 1>>

\* C15: AddHook appends its hook to the list, a hook already in the list
\* included; with all AddHook calls made before any other call, the step of a
\* call that emits an event runs the matching callback once on every entry of
\* the list, in registration order and before the call returns, so a hook that
\* was registered n times has its counter moved n times by one event.
C15_HooksInOrder ==
    [][/\ MadeAll("AddHook")' = MadeAll("AddHook") + 1
              => hooks' = Append(hooks, "CounterHook")
       /\ Len(hooks') = MadeAll("AddHook")'
       /\ events' # events
              => /\ trail' = [i \in 1 .. Len(hooks) |-> i]
                 /\ calls' # calls
                 /\ \A e \in DOMAIN events' :
                        Cnt(events', e) # Cnt(events, e)
                            => h'[Moves(e.kind)[1]]
                                   = h[Moves(e.kind)[1]] + Moves(e.kind)[2] * Len(hooks)]_vars

\* C15 witness: the CounterHook registered twice has counted one Open twice,
\* and the event reached entry 1 before entry 2.
C15_Witness ==
    /\ hooks = <<"CounterHook", "CounterHook">>
    /\ SentAll("ConnOpened") = 1
    /\ TotalConns(h) = 2
    /\ trail = <<1, 2>>

\* No goroutine is inside a callback.
AllReturned == \A t \in Threads : threads[t] = <<>>

\* The CounterHook after the callback for ev ran n times, one after another.
RECURSIVE Repeat(_, _, _)
Repeat(c, ev, n) == IF n = 0 THEN c ELSE Repeat(Callback(c, ev), ev, n - 1)

\* The CounterHook after the callbacks tallied in K ran one after another.
RECURSIVE OneAfterAnother(_, _, _)
OneAfterAnother(c, tally, K) ==
    IF K = {} THEN c
    ELSE LET ev == CHOOSE x \in K : TRUE
         IN OneAfterAnother(Repeat(c, ev, tally[ev]), tally, K \ {ev})

\* C16: once every callback made from the goroutines has returned, every
\* counter is the number of events of its kind and outcome, and every gauge is
\* the successful opens minus the closes.
C16_CountsUnderConcurrency ==
    AllReturned =>
        /\ TotalConns(h) = Sent("ConnOpened", Nil)
        /\ ConnErrs(h) = Sent("ConnOpened", AnErr)
        /\ OpenConns(h) = Sent("ConnOpened", Nil) - SentAll("ConnClosed")
        /\ TotalStmts(h) = Sent("StmtPrepared", Nil)
        /\ StmtErrs(h) = Sent("StmtPrepared", AnErr)
        /\ OpenStmts(h) = Sent("StmtPrepared", Nil) - SentAll("StmtClosed")
        /\ TotalTxs(h) = Sent("TxBegan", Nil)
        /\ TxOpenErrs(h) = Sent("TxBegan", AnErr)
        /\ OpenTxs(h) = Sent("TxBegan", Nil) - SentAll("TxCommitted")
                            - SentAll("TxRolledback")
        /\ CommittedTxs(h) = Sent("TxCommitted", Nil)
        /\ RolledbackTxs(h) = Sent("TxRolledback", Nil)
        /\ TxCloseErrs(h) = Sent("TxCommitted", AnErr) + Sent("TxRolledback", AnErr)
        /\ Queries(h) = Sent("Queried", Nil)
        /\ QueryErrs(h) = Sent("Queried", AnErr)
        /\ Execs(h) = Sent("Execed", Nil)
        /\ ExecErrs(h) = Sent("Execed", AnErr)
        /\ RowsIterated(h) = Sent("RowIterated", Nil)
        /\ RowErrs(h) = Sent("RowIterated", AnErr)

\* C16, as far as the code goes: no update is lost. Once every callback has
\* returned the CounterHook is what the same callbacks leave when they run one
\* after another, whatever the interleaving of their atomic adds was.
C16_NoLostUpdate ==
    AllReturned => h = OneAfterAnother(CounterHook, events, DOMAIN events)

\* C16, as far as the code goes: with no callback given an error the counters
\* are the event counts and the gauges are opens minus closes.
C16_CountsWithoutErrors ==
    (AllReturned /\ \A e \in DOMAIN events : e.err = Nil)
        => /\ TotalConns(h) = Sent("ConnOpened", Nil)
           /\ OpenConns(h) = Sent("ConnOpened", Nil) - SentAll("ConnClosed")
           /\ TotalStmts(h) = Sent("StmtPrepared", Nil)
           /\ OpenStmts(h) = Sent("StmtPrepared", Nil) - SentAll("StmtClosed")
           /\ TotalTxs(h) = Sent("TxBegan", Nil)
           /\ OpenTxs(h) = Sent("TxBegan", Nil) - SentAll("TxCommitted")
                               - SentAll("TxRolledback")
           /\ CommittedTxs(h) = Sent("TxCommitted", Nil)
           /\ RolledbackTxs(h) = Sent("TxRolledback", Nil)
           /\ Queries(h) = Sent("Queried", Nil)
           /\ Execs(h) = Sent("Execed", Nil)
           /\ RowsIterated(h) = Sent("RowIterated", Nil)

\* C17: a Next call emits a RowIterated event exactly when the backend's
\* result is not io.EOF; the event carries that result, no RowIterated event
\* ever carries io.EOF, a nil result adds 1 to RowsIterated() only and any
\* other error adds 1 to RowErrs() only.
C17_RowEventUnlessEOF ==
    [][\A e \in {Nil, AnErr, EOF} :
           Made("Next", e)' = Made("Next", e) + 1
               => /\ SentAll("RowIterated")'
                         = SentAll("RowIterated") + (IF e = EOF THEN 0 ELSE 1)
                  /\ e # EOF => Sent("RowIterated", e)' = Sent("RowIterated", e) + 1
                  /\ Sent("RowIterated", EOF)' = 0
                  /\ Once => /\ RowsIterated(h')
                                    = RowsIterated(h) + (IF e = Nil THEN 1 ELSE 0)
                             /\ RowErrs(h') = RowErrs(h) + (IF e = AnErr THEN 1 ELSE 0)]_vars

\* C17, as far as the code goes: what the proxy emits is as claimed; the
\* CounterHook counts every RowIterated event in RowsIterated().
C17_RowEventUnlessEOF_Emitted ==
    [][\A e \in {Nil, AnErr, EOF} :
           Made("Next", e)' = Made("Next", e) + 1
               => /\ SentAll("RowIterated")'
                         = SentAll("RowIterated") + (IF e = EOF THEN 0 ELSE 1)
                  /\ e # EOF => Sent("RowIterated", e)' = Sent("RowIterated", e) + 1
                  /\ Sent("RowIterated", EOF)' = 0
                  /\ Once => RowsIterated(h')
                                 = RowsIterated(h) + (IF e = EOF THEN 0 ELSE 1)]_vars

\* C18: every Commit call emits exactly one TxCommitted event and no
\* TxRolledback event, every Rollback call exactly one TxRolledback event and
\* no TxCommitted event; the event carries the backend's result, and
\* OpenTxs() goes down by exactly 1 whether the backend call failed or not.
C18_TxEndAlwaysCounted ==
    [][\A e \in Errs :
           /\ Made("Commit", e)' = Made("Commit", e) + 1
                  => /\ SentAll("TxCommitted")' = SentAll("TxCommitted") + 1
                     /\ Sent("TxCommitted", e)' = Sent("TxCommitted", e) + 1
                     /\ SentAll("TxRolledback")' = SentAll("TxRolledback")
                     /\ Answered("Tx.Commit", e)' = Answered("Tx.Commit", e) + 1
                     /\ Once => OpenTxs(h') = OpenTxs(h) - 1
           /\ Made("Rollback", e)' = Made("Rollback", e) + 1
                  => /\ SentAll("TxRolledback")' = SentAll("TxRolledback") + 1
                     /\ Sent("TxRolledback", e)' = Sent("TxRolledback", e) + 1
                     /\ SentAll("TxCommitted")' = SentAll("TxCommitted")
                     /\ Answered("Tx.Rollback", e)' = Answered("Tx.Rollback", e) + 1
                     /\ Once => OpenTxs(h') = OpenTxs(h) - 1]_vars

\* C18 witness: of two transactions one was committed with an error and one
\* rolled back without, and no transaction is counted open.
C18_Witness ==
    /\ Once
    /\ Made("Begin", Nil) = 2 /\ Made("Begin", AnErr) = 0
    /\ Made("Commit", AnErr) = 1
    /\ Made("Rollback", Nil) = 1
    /\ OpenTxs(h) = 0

\* C19 as stated: no transaction proxy has emitted more than one terminal
\* event (TxCommitted or TxRolledback), whatever Commit and Rollback calls
\* were made on it.
C19_TxTerminal == \A i \in DOMAIN txs : txs[i].terminals <= 1

\* C19 as amended: every transaction proxy has emitted exactly one terminal
\* event per Commit or Rollback call made on it, so at most one as long as it
\* received at most one such call; all terminal events come from such calls.
C19_OneTerminalPerCall ==
    /\ \A i \in DOMAIN txs :
           /\ txs[i].terminals = txs[i].ends
           /\ txs[i].ends <= 1 => txs[i].terminals <= 1
    /\ SentAll("TxCommitted") + SentAll("TxRolledback")
           = MadeAll("Commit") + MadeAll("Rollback")

\* C19 witness: a transaction ended by one failed Commit has emitted one
\* terminal event, next to a transaction not ended yet.
C19_Witness ==
    /\ Len(txs) = 2
    /\ txs[1].ends = 1 /\ txs[1].terminals = 1
    /\ txs[2].ends = 0 /\ txs[2].terminals = 0
    /\ Made("Commit", AnErr) = 1

\* C20: a Close call on a connection proxy, of whichever of the four proxy
\* types and whatever failed on the connection before, calls the backend
\* connection's Close exactly once and emits exactly one ConnClosed event,
\* which carries the backend's result, nil or not.
C20_ConnCloseOnce ==
    [][\A i \in DOMAIN conns :
           (/\ conns[i].kind \in {"statsConn", "statsQueryer", "statsExecer",
                                   "statsExecerQueryer"}
            /\ conns'[i].closes = conns[i].closes + 1)
               => /\ Forwarded("Conn.Close")' = Forwarded("Conn.Close") + 1
                  /\ SentAll("ConnClosed")' = SentAll("ConnClosed") + 1
                  /\ \E e \in Errs :
                         /\ Answered("Conn.Close", e)' = Answered("Conn.Close", e) + 1
                         /\ Made("ConnClose", e)' = Made("ConnClose", e) + 1
                         /\ Sent("ConnClosed", e)' = Sent("ConnClosed", e) + 1]_vars

\* C20 witness: a proxy that is both Queryer and Execer, closed once with an
\* error from the backend, on a connection where an Exec and a Begin failed.
C20_Witness ==
    /\ Len(conns) = 1
    /\ conns[1].kind = "statsExecerQueryer"
    /\ conns[1].closes = 1
    /\ Made("ConnExec", AnErr) = 1
    /\ Made("Begin", AnErr) = 1
    /\ Made("ConnClose", AnErr) = 1
    /\ Sent("ConnClosed", AnErr) = 1

\* ---------------------------------------------------------------------
\* The roots of the proxies a step created or changed.
TouchedIn(old, new) ==
    {new[i].root : i \in {j \in 1 .. Len(new) : j > Len(old) \/ old[j] # new[j]}}
Touched ==
    TouchedIn(conns, conns') \cup TouchedIn(stmts, stmts')
        \cup TouchedIn(txs, txs') \cup TouchedIn(rows, rows')
AllProxies ==
    {conns[i] : i \in DOMAIN conns} \cup {stmts[i] : i \in DOMAIN stmts}
        \cup {txs[i] : i \in DOMAIN txs} \cup {rows[i] : i \in DOMAIN rows}

\* C21: every proxy reports to the driver whose Open made its connection, and
\* to no other: with two drivers that have hooks of their own, a call on a
\* connection, statement, transaction or result set that descends from one
\* driver is counted and delivered at that driver and leaves the hooks, the
\* events and the calls of the other driver as they were.
C21_ReportsToOwnRoot ==
    [][/\ \A p \in AllProxies : DriverOf(p) = p.root
       /\ \A r \in Touched :
            /\ r = TheDriver =>
                 /\ other' = other
                 /\ calls' # calls
                 /\ (events' # events /\ hooks # <<>>) => h' # h
            /\ r = OtherDriver =>
                 /\ h' = h /\ events' = events /\ calls' = calls
                 /\ other'.calls # other.calls
                 /\ (other'.events # other.events /\ other.hooks # <<>>)
                        => other'.h # other.h]_vars

\* C21 witness: both drivers have a hook, rows three proxies below a
\* connection of the second driver were iterated, the second driver's hook
\* counted the connection, the statement, the query and the row, and the
\* first driver's hook counted nothing.
C21_Witness ==
    /\ hooks # <<>>
    /\ other.hooks # <<>>
    /\ \E i \in DOMAIN rows : rows[i].root = OtherDriver /\ rows[i].evs >= 1
    /\ other.h.totalConns = 1
    /\ other.h.totalStmts = 1
    /\ other.h.queries = 1
    /\ other.h.rowsIterated = 1
    /\ h = CounterHook
    /\ events = <<>>

\* ---------------------------------------------------------------------
\* C22: every Open(name) calls the stored open function exactly once, with
\* the connection string it was given: the open function was called as often
\* as Open was, and never with another string than the caller's.
C22_OpenForwardsName ==
    /\ Forwarded("open") = MadeAll("Open")
    /\ Cnt(passed, <<"Open.name", TRUE>>) = MadeAll("Open")
    /\ Cnt(passed, <<"Open.name", FALSE>>) = 0

\* C22 witness: Open was called twice, once the open function failed and once
\* it returned a connection, and both times it got the caller's string.
C22_Witness ==
    /\ Made("Open", AnErr) = 1
    /\ Made("Open", Nil) = 1
    /\ Forwarded("open") = 2
    /\ Cnt(passed, <<"Open.name", TRUE>>) = 2

\* ---------------------------------------------------------------------
\* A step emits exactly one event of the kind, carrying one of the query texts
\* qs and the error e (the callbacks of driver.go take no error; an event of
\* theirs is recorded by its kind alone).
EmitsOne(kind, qs, e) ==
    \E q \in qs, x \in {e, NoErr} :
        events' = Inc(events, Event(kind, IF x = NoErr THEN EmptyQuery ELSE q, x))

\* C23: every Prepare emits exactly one StmtPrepared event that carries the
\* query text and the backend's error, and every Begin exactly one TxBegan
\* event that carries the backend's error, when the backend failed as well as
\* when it succeeded; a statement or transaction proxy is made on success and
\* none on failure.
C23_PrepareBeginAlwaysEmit ==
    [][\A e \in Errs :
        /\ Made("Prepare", e)' = Made("Prepare", e) + 1
             => /\ IF e = Nil
                   THEN /\ Len(stmts') = Len(stmts) + 1
                        /\ EmitsOne("StmtPrepared", {stmts'[Len(stmts')].query}, e)
                   ELSE /\ stmts' = stmts
                        /\ EmitsOne("StmtPrepared", QueryTexts, e)
        /\ Made("Begin", e)' = Made("Begin", e) + 1
             => /\ EmitsOne("TxBegan", {EmptyQuery}, e)
                /\ IF e = Nil THEN Len(txs') = Len(txs) + 1 ELSE txs' = txs]_vars

\* C23 in the hook driver: a failed Prepare and a failed Begin were each
\* reported with their error, and no proxy was made.
C23_Emitted ==
    /\ Made("Prepare", AnErr) = 1
    /\ Made("Begin", AnErr) = 1
    /\ Sent("StmtPrepared", AnErr) = 1
    /\ Sent("TxBegan", AnErr) = 1
    /\ stmts = <<>> /\ txs = <<>>

\* C24: every batch Query on a connection emits exactly one Queried event and
\* every batch Exec exactly one Execed event, carrying the query text and the
\* backend's error, when the backend failed as well as when it succeeded; a
\* result-set proxy is made for a successful Query and none for a failed one.
C24_BatchAlwaysEmits ==
    [][\A e \in Errs :
        /\ Made("ConnQuery", e)' = Made("ConnQuery", e) + 1
             => /\ EmitsOne("Queried", QueryTexts, e)
                /\ IF e = Nil THEN Len(rows') = Len(rows) + 1 ELSE rows' = rows
        /\ Made("ConnExec", e)' = Made("ConnExec", e) + 1
             => /\ EmitsOne("Execed", QueryTexts, e)
                /\ rows' = rows]_vars

\* C24 in the hook driver: a failed batch Query and a failed batch Exec were
\* each reported with their error, and no result set was made.
C24_Emitted ==
    /\ Made("ConnQuery", AnErr) = 1
    /\ Made("ConnExec", AnErr) = 1
    /\ Sent("Queried", AnErr) = 1
    /\ Sent("Execed", AnErr) = 1
    /\ rows = <<>>

\* ---------------------------------------------------------------------
\* C25: every Exec and Query on a statement proxy, failed or not, emits exactly
\* one event, an Execed event for Exec and a Queried event for Query, and the
\* event carries the query text given to the Prepare that made the statement
\* and the backend's error.
C25_StmtEventsCarryPreparedQuery ==
    [][\A i \in DOMAIN stmts :
        stmts'[i].uses = stmts[i].uses + 1
            => \E e \in Errs :
                 \/ /\ Made("StmtExec", e)' = Made("StmtExec", e) + 1
                    /\ events' = Inc(events, Event("Execed", stmts[i].query, e))
                 \/ /\ Made("StmtQuery", e)' = Made("StmtQuery", e) + 1
                    /\ events' = Inc(events, Event("Queried", stmts[i].query, e))]_vars

\* C25 witness: two statements were prepared with different query texts, and
\* the one prepared first was then used twice, once with an error, and both
\* events carry its query text.
C25_Witness ==
    \E i, j \in DOMAIN stmts :
        /\ i < j
        /\ stmts[i].query # stmts[j].query
        /\ stmts[i].uses = 2
        /\ stmts[i].fails = 1
        /\ SumOver(events, {e \in DOMAIN events :
                              /\ e.kind \in {"Queried", "Execed"}
                              /\ e.query = stmts[i].query}) = 2

\* ---------------------------------------------------------------------
\* What a finished call logs with n hooks registered and the backend's answer
\* err: the backend call, one callback per hook, the return.
ExpectedLog(n, err) ==
    <<(<<"backend", err>>)>> \o [k \in 1 .. n |-> <<"hook", err>>]
        \o <<(<<"return", err>>)>>

\* C26: the hooks are notified only after the backend operation has returned
\* and before the proxy returns: what a call has done so far is always a
\* beginning of: the backend call, then one callback for each registered hook
\* with the backend's result, then the return of that result.
C26_NotifiedBetween ==
    \/ frame.log = <<>>
    \/ /\ Len(frame.log) <= Len(hooks) + 2
       /\ frame.log = SubSeq(ExpectedLog(Len(hooks), frame.log[1][2]), 1,
                             Len(frame.log))

\* C26 witness: with two hooks registered a Close whose backend failed has
\* returned, after the backend call and both callbacks.
C26_Witness ==
    /\ Len(hooks) = 2
    /\ frame.pc = 0
    /\ frame.log = ExpectedLog(2, AnErr)
    /\ Made("ConnClose", AnErr) = 1
    /\ Sent("ConnClosed", AnErr) = 1

\* ---------------------------------------------------------------------
\* The one-line methods and the backend method each forwards to.
ForwardOps ==
    {<<"NumInput", "Stmt.NumInput">>,
     <<"ColumnConverter", "ColumnConverter.ColumnConverter">>,
     <<"Columns", "Rows.Columns">>,
     <<"RowsClose", "Rows.Close">>}

\* C27: a statement's NumInput and ColumnConverter and a result set's Columns
\* and Close each call the backend's method exactly once, return what it
\* returned, emit no event and leave every counter of every hook and every
\* proxy as it was.
C27_ForwardOnly ==
    [][\A f \in ForwardOps :
        MadeAll(f[1])' = MadeAll(f[1]) + 1
            => /\ Forwarded(f[2])' = Forwarded(f[2]) + 1
               /\ \A e \in Errs : Made(f[1], e)' - Made(f[1], e)
                                     = Answered(f[2], e)' - Answered(f[2], e)
               /\ passed' = Inc(passed, <<f[1], TRUE>>)
               /\ events' = events
               /\ h' = h
               /\ UNCHANGED proxyVars]_vars

\* C27 witness: with a hook registered, NumInput was called on a statement and
\* Close on a result set, where the backend's Close failed, and the hook has
\* counted the connection, the statement and the query and nothing else.
C27_Witness ==
    /\ hooks # <<>>
    /\ MadeAll("NumInput") = 1
    /\ Made("RowsClose", AnErr) = 1
    /\ Answered("Rows.Close", AnErr) = 1
    /\ Cnt(passed, <<"NumInput", TRUE>>) = 1
    /\ Cnt(passed, <<"RowsClose", TRUE>>) = 1
    /\ SumOver(events, DOMAIN events) = 3
    /\ h = CounterHook_Queried(CounterHook_StmtPrepared(
                CounterHook_ConnOpened(CounterHook, Nil), EmptyQuery, Nil),
                EmptyQuery, Nil)

\* ---------------------------------------------------------------------
\* C28: the transaction proxy does not guard its terminal calls: every Commit
\* and every Rollback call, a second call and a call after the other one
\* included, is forwarded to the backend transaction and emits one TxCommitted
\* or TxRolledback event that carries what the backend answered.
C28_TerminalCallsUnguarded ==
    [][\A i \in DOMAIN txs :
        txs'[i].ends = txs[i].ends + 1
            => \E e \in Errs :
                 \/ /\ Made("Commit", e)' = Made("Commit", e) + 1
                    /\ Answered("Tx.Commit", e)' = Answered("Tx.Commit", e) + 1
                    /\ events' = Inc(events, Event("TxCommitted", EmptyQuery, e))
                 \/ /\ Made("Rollback", e)' = Made("Rollback", e) + 1
                    /\ Answered("Tx.Rollback", e)' = Answered("Tx.Rollback", e) + 1
                    /\ events' = Inc(events, Event("TxRolledback", EmptyQuery, e))]_vars

\* C28 witness: one transaction was committed twice and then rolled back, the
\* backend refused the last two calls, and all three calls reached the backend
\* and were reported.
C28_Witness ==
    /\ Len(txs) = 1
    /\ txs[1].ends = 3
    /\ Made("Commit", Nil) = 1 /\ Made("Commit", AnErr) = 1
    /\ Made("Rollback", AnErr) = 1
    /\ Forwarded("Tx.Commit") = 2 /\ Forwarded("Tx.Rollback") = 1
    /\ Sent("TxCommitted", Nil) = 1 /\ Sent("TxCommitted", AnErr) = 1
    /\ Sent("TxRolledback", AnErr) = 1

\* ---------------------------------------------------------------------
\* The success counter and the error counter of an event kind.
Pair(kind) ==
    CASE kind = "ConnOpened" -> <<"totalConns", "connErrs">>
      [] kind = "StmtPrepared" -> <<"totalStmts", "stmtErrs">>
      [] kind = "TxBegan" -> <<"totalTxs", "txOpenErrs">>
      [] kind = "TxCommitted" -> <<"committedTxs", "txCloseErrs">>
      [] kind = "TxRolledback" -> <<"rolledbackTxs", "txCloseErrs">>
      [] kind = "Queried" -> <<"queries", "queryErrs">>
      [] kind = "Execed" -> <<"execs", "execErrs">>
      [] kind = "RowIterated" -> <<"rowsIterated", "rowErrs">>
PairedKinds ==
    {"ConnOpened", "StmtPrepared", "TxBegan", "TxCommitted", "TxRolledback",
     "Queried", "Execed", "RowIterated"}

\* C29: with the CounterHook registered once, an event of one of the eight
\* paired kinds adds 1 to exactly one counter of the kind's pair: to the
\* success counter when its error is nil, to the error counter when it is not
\* (TxCloseErrs for a failed commit and for a failed rollback), and the other
\* counter of the pair stays as it was.
C29_OneOfThePair ==
    [][Once =>
        \A ev \in DOMAIN events' :
            (ev.kind \in PairedKinds /\ events' = Inc(events, ev))
                => /\ h'[Pair(ev.kind)[1]]
                        = h[Pair(ev.kind)[1]] + (IF ev.err = Nil THEN 1 ELSE 0)
                   /\ h'[Pair(ev.kind)[2]]
                        = h[Pair(ev.kind)[2]] + (IF ev.err = Nil THEN 0 ELSE 1)]_vars

\* C29, as far as the code goes: an event with a nil error adds 1 to the
\* success counter of its kind and leaves the error counter as it was.
C29_OneOfThePair_NilOnly ==
    [][Once =>
        \A ev \in DOMAIN events' :
            (ev.kind \in PairedKinds /\ events' = Inc(events, ev) /\ ev.err = Nil)
                => /\ h'[Pair(ev.kind)[1]] = h[Pair(ev.kind)[1]] + 1
                   /\ h'[Pair(ev.kind)[2]] = h[Pair(ev.kind)[2]]]_vars

\* C30: the CounterHook, registered once, has an error counter of its own for
\* each of TxBegan, TxCommitted and TxRolledback: three different counters
\* that hold the number of failed Begin, failed Commit and failed Rollback
\* calls.
C30_SeparateTxErrCounters ==
    Once =>
        \E fb, fc, fr \in ErrFields :
            /\ fb # fc /\ fb # fr /\ fc # fr
            /\ h[fb] = Made("Begin", AnErr)
            /\ h[fc] = Made("Commit", AnErr)
            /\ h[fr] = Made("Rollback", AnErr)

\* ---------------------------------------------------------------------
\* C31: with the CounterHook registered once, a ConnClosed event takes 1 from
\* OpenConns() and a StmtClosed event takes 1 from OpenStmts(), whether the
\* close error it carries is nil or not, and no other counter changes:
\* the totals and every error counter stay as they were.
C31_CloseOnlyLowersGauge ==
    [][Once =>
        \A e \in Errs :
            /\ events' = Inc(events, Event("ConnClosed", EmptyQuery, e))
                 => h' = [h EXCEPT !.openConns = @ - 1]
            /\ events' = Inc(events, Event("StmtClosed", EmptyQuery, e))
                 => h' = [h EXCEPT !.openStmts = @ - 1]]_vars

\* C31 witness: the one connection opened was closed and the backend's Close
\* failed; the hook is back at no open connection, one in total and nothing
\* else counted.
C31_Witness ==
    /\ Once
    /\ Made("Open", Nil) = 1
    /\ Sent("ConnClosed", AnErr) = 1
    /\ SumOver(events, DOMAIN events) = 2
    /\ h = [CounterHook EXCEPT !.totalConns = 1]

\* ---------------------------------------------------------------------
\* The callbacks a call has made so far.
Delivered == Len(SelectSeq(frame.log, LAMBDA x : x[1] = "hook"))
HasReturned == frame.log # <<>> /\ frame.log[Len(frame.log)][1] = "return"

\* C32: the hooks are not isolated from each other or from the caller. When
\* the callback of the hook at position i never returns, the hooks after
\* position i never get the event and the call never returns; and a call in
\* progress does return in the end unless one of its callbacks never returns.
C32_NoIsolation ==
    /\ [](frame.stuck # 0 => (Delivered = frame.stuck /\ ~HasReturned))
    /\ [](frame.pc # 0 => <>(HasReturned \/ frame.stuck # 0))

\* C32 witness: of two hooks the first one's callback never returned; the
\* CounterHook after it has not been called and the Close has not returned.
C32_Witness ==
    /\ hooks = <<"UserHook", "CounterHook">>
    /\ frame.stuck = 1
    /\ frame.pc # 0
    /\ Delivered = 1
    /\ OpenConns(h) = 1
    /\ MadeAll("ConnClose") = 0

\* ---------------------------------------------------------------------
\* C33: a dispatch iterates the hook list as it was when it started, also when
\* AddHook runs at the same time: when the dispatch is over, every hook whose
\* AddHook call had returned before it started has got the event exactly once,
\* and no hook has got it more than once.
C33_DispatchSeesSnapshot ==
    slice.rd.pc \in {"done", "crashed"}
        => /\ \A n \in 1 .. slice.rd.before : slice.got[n] = 1
           /\ \A n \in 1 .. MaxAdds : slice.got[n] <= 1

\* C33, as far as the code goes: a dispatch during which no AddHook call was
\* in progress ends without a panic and has called exactly the hooks
\* registered before it, once each.
C33_DispatchWithoutRace ==
    (slice.rd.pc \in {"done", "crashed"} /\ ~slice.rd.raced)
        => /\ slice.rd.pc = "done"
           /\ \A n \in 1 .. MaxAdds :
                  slice.got[n] = IF n <= slice.rd.before THEN 1 ELSE 0

\* C33: a dispatch without a concurrent AddHook has called two hooks.
C33_Quiet ==
    /\ slice.rd.pc = "done"
    /\ ~slice.rd.raced
    /\ slice.rd.before = 2
    /\ slice.got[1] = 1 /\ slice.got[2] = 1

\* ---------------------------------------------------------------------
\* The counters that belong to an event kind: the gauge, the totals and the
\* error counters of connections, of statements, of transactions, of queries,
\* of execs and of rows.
Family(kind) ==
    CASE kind \in {"ConnOpened", "ConnClosed"} -> {"openConns", "totalConns", "connErrs"}
      [] kind \in {"StmtPrepared", "StmtClosed"} -> {"openStmts", "totalStmts", "stmtErrs"}
      [] kind \in {"TxBegan", "TxCommitted", "TxRolledback"} ->
             {"openTxs", "totalTxs", "committedTxs", "rolledbackTxs", "txOpenErrs",
              "txCloseErrs"}
      [] kind = "Queried" -> {"queries", "queryErrs"}
      [] kind = "Execed" -> {"execs", "execErrs"}
      [] kind = "RowIterated" -> {"rowsIterated", "rowErrs"}

\* C34: a CounterHook callback changes only counters of its own event kind:
\* an event of one kind, whatever error it carries and however many times the
\* CounterHook is registered, leaves every counter of the connections, the
\* statements, the transactions, the queries, the execs and the rows that is
\* not of its kind as it was, and changes one that is.
C34_OwnCountersOnly ==
    [][\A ev \in DOMAIN events' :
        (events' = Inc(events, ev) /\ hooks # <<>>)
            => /\ \A f \in DOMAIN h \ Family(ev.kind) : h'[f] = h[f]
               /\ \E f \in Family(ev.kind) : h'[f] # h[f]]_vars

\* C34 witness: with the CounterHook registered once, a connection was opened
\* and one batch query failed on it: one query counted, and nothing among the
\* execs, rows, statements and transactions.
C34_Witness ==
    /\ Once
    /\ Sent("Queried", AnErr) = 1
    /\ SumOver(events, DOMAIN events) = 2
    /\ h.queries + h.queryErrs = 1
    /\ \A f \in DOMAIN h \ (Family("Queried") \cup Family("ConnOpened")) : h[f] = 0

\* ---------------------------------------------------------------------
\* The gauges and the totals they are counted with.
Gauges ==
    {<<"openConns", "totalConns">>, <<"openStmts", "totalStmts">>,
     <<"openTxs", "totalTxs">>}

\* The callbacks that have raised their gauge and not yet their total.
InFlight(total) ==
    Cardinality({t \in Threads :
                    threads[t] # <<>> /\ Head(threads[t]) = <<total, 1>>})

\* C35 as stated: at every instant, between the atomic updates of a callback
\* as well, OpenConns() <= TotalConns(), OpenStmts() <= TotalStmts() and
\* OpenTxs() <= TotalTxs().
C35_GaugeNeverAboveTotal ==
    \A g \in Gauges : h[g[1]] <= h[g[2]]

\* C35 as amended: a gauge is above its total by at most the number of
\* ConnOpened, StmtPrepared or TxBegan callbacks that are between their two
\* atomic updates, so it is not above its total whenever no such callback is
\* in progress.
C35_GaugeAboveTotalOnlyInFlight ==
    \A g \in Gauges :
        /\ h[g[1]] <= h[g[2]] + InFlight(g[2])
        /\ (\A t \in Threads : threads[t] = <<>>) => h[g[1]] <= h[g[2]]

\* C35 witness: two goroutines are in ConnOpened, both between the two atomic
\* updates: a reader finds OpenConns() = 2 and TotalConns() = 0.
C35_Witness ==
    /\ InFlight("totalConns") = 2
    /\ OpenConns(h) = 2
    /\ TotalConns(h) = 0

C37_SameCounters == \A f \in CounterFields : h[f] = d[f]

\* The operations whose built-in callback driver.go calls only on success.
GuardedOps ==
    {"Open", "Prepare", "Begin", "ConnQuery", "ConnExec", "StmtExec",
     "StmtQuery", "Next"}

\* C37, what holds instead: the counters agree as long as none of Open,
\* Prepare, Begin, Query, Exec and Next has failed; failed Close, Commit and
\* Rollback calls are counted alike by both.
C37_SameUntilGuardedFailure ==
    (\A op \in GuardedOps : Made(op, AnErr) = 0) => C37_SameCounters

\* C37: a state the weaker statement is about: a connection was opened, a
\* transaction begun and its Commit failed, and both drivers count alike.
C37_Agreeing ==
    /\ Made("Open", Nil) = 1
    /\ Made("Begin", Nil) = 1
    /\ Made("Commit", AnErr) = 1
    /\ \A op \in GuardedOps : Made(op, AnErr) = 0
    /\ CommittedTxs(h) = 1
    /\ CommittedTxs(d) = 1

====
